---------------------------- MODULE Spec2Model ----------------------------
(***************************************************************************)
(* Disk-to-controller tree of linux/disktools: disk_controller_tree.py     *)
(* ("v1") and v2_disk_controller_tree.py ("v2").  A run checks privileges  *)
(* and tools, scans the sd* block devices and the nvmeXn1 nodes, resolves  *)
(* each device's storage controller from its sysfs path and lspci, files a *)
(* report line under the controller key and prints the groups sorted.      *)
(*                                                                         *)
(* Python strings are sequences of one-character strings, so that regular  *)
(* expressions, split, strip and string comparison are computed and not    *)
(* assumed.                                                                *)
(***************************************************************************)
EXTENDS Integers, Sequences, FiniteSets, TLC

\* ------------------------------------------------------------------------
\* Characters and Python string primitives
\* ------------------------------------------------------------------------

\* The characters the model uses, in ascending code-point order.
CHARS == <<" ","-",".","/","0","1","2","3","4","5","6","7","8","9",":","?","A","B","C","D","E","F","G","H","I","J","K","L","M","N","O","P","Q","R","S","T","U","V","W","X","Y","Z","_","a","b","c","d","e","f","g","h","i","j","k","l","m","n","o","p","q","r","s","t","u","v","w","x","y","z">>

\* ord(c), up to an order-preserving renumbering.
Ord(c) == CHOOSE i \in 1..Len(CHARS) : CHARS[i] = c

UPPERCASE == <<"A","B","C","D","E","F","G","H","I","J","K","L","M","N","O","P","Q","R","S","T","U","V","W","X","Y","Z">>

LOWERCASE == <<"a","b","c","d","e","f","g","h","i","j","k","l","m","n","o","p","q","r","s","t","u","v","w","x","y","z">>

DIGITS == {"0","1","2","3","4","5","6","7","8","9"}

HEXLOWER == DIGITS \cup {"a","b","c","d","e","f"}

\* str.lower() on one character.
LowerChar(c) ==
  IF \E i \in 1..26 : UPPERCASE[i] = c
  THEN LOWERCASE[CHOOSE i \in 1..26 : UPPERCASE[i] = c]
  ELSE c

\* str.lower().
Lower(s) == [i \in 1..Len(s) |-> LowerChar(s[i])]

\* s[i:] with a 1-based first index.
Drop(s, i) == IF i > Len(s) THEN << >> ELSE SubSeq(s, i, Len(s))

\* s.startswith(p).
StartsWith(s, p) == Len(p) <= Len(s) /\ SubSeq(s, 1, Len(p)) = p

\* p in s.
Contains(s, p) ==
  \E i \in 1..(Len(s) + 1) : i + Len(p) - 1 <= Len(s) /\ SubSeq(s, i, i + Len(p) - 1) = p

WHITESPACE == {" ", "\n"}

\* str.strip().
RECURSIVE LStrip(_)
LStrip(s) == IF s # << >> /\ Head(s) \in WHITESPACE THEN LStrip(Tail(s)) ELSE s

RECURSIVE RStrip(_)
RStrip(s) ==
  IF s # << >> /\ s[Len(s)] \in WHITESPACE THEN RStrip(SubSeq(s, 1, Len(s) - 1)) ELSE s

Strip(s) == RStrip(LStrip(s))

\* s.split(sep, maxsplit)[-1]: what follows the maxsplit-th separator, or the
\* last piece when there are fewer.
RECURSIVE SplitLast(_, _, _)
SplitLast(s, sep, maxsplit) ==
  IF maxsplit = 0 \/ ~(\E i \in 1..Len(s) : s[i] = sep)
  THEN s
  ELSE SplitLast(Drop(s, (CHOOSE i \in 1..Len(s) :
                            s[i] = sep /\ \A j \in 1..(i - 1) : s[j] # sep) + 1),
                 sep, maxsplit - 1)

\* s.split()[0] of a string that holds a non-blank character.
FirstToken(s) ==
  LET t == LStrip(s)
      ws(i) == t[i] \in WHITESPACE
      n == IF \E i \in 1..Len(t) : ws(i)
           THEN (CHOOSE i \in 1..Len(t) : ws(i) /\ \A j \in 1..(i - 1) : ~ws(j)) - 1
           ELSE Len(t)
  IN SubSeq(t, 1, n)

\* Python's < on strings: by code point, a proper prefix first.
RECURSIVE StrLess(_, _)
StrLess(a, b) ==
  IF b = << >> THEN FALSE
  ELSE IF a = << >> THEN TRUE
  ELSE IF Head(a) # Head(b) THEN Ord(Head(a)) < Ord(Head(b))
  ELSE StrLess(Tail(a), Tail(b))

\* Python's < on 3-tuples of integers.
TupleLess(a, b) ==
  \/ a[1] < b[1]
  \/ a[1] = b[1] /\ a[2] < b[2]
  \/ a[1] = b[1] /\ a[2] = b[2] /\ a[3] < b[3]

\* int(c, 16) of one lower-case hexadecimal digit.
HexDigit(c) == (CHOOSE i \in 1..16 : <<"0","1","2","3","4","5","6","7","8","9","a","b","c","d","e","f">>[i] = c) - 1

\* int(s, 16) of a string of lower-case hexadecimal digits.
RECURSIVE HexInt(_)
HexInt(s) == IF s = << >> THEN 0 ELSE 16 * HexInt(SubSeq(s, 1, Len(s) - 1)) + HexDigit(s[Len(s)])


\* ------------------------------------------------------------------------
\* Bounds and input pools
\* ------------------------------------------------------------------------

\* The most devices (sd* and nvmeXn1 together) one run discovers.
MaxDevs == 3

\* The most controller groups inserted before printing under SortSpec.
MaxGroups == 3

VARIANTS == {"v1", "v2"}

\* Canonical sysfs paths os.path.realpath may return for <dev>/device.
PATH_AHCI == <<"/","s","y","s","/","d","e","v","i","c","e","s","/","p","c","i","0","0","0","0",":","0","0","/","0","0","0","0",":","0","0",":","1","c",".","0","/","0","0","0","0",":","0","1",":","0","0",".","0","/","a","t","a","1","/","h","o","s","t","0","/","t","a","r","g","e","t","0",":","0",":","0","/","0",":","0",":","0",":","0">>

PATH_NVME == <<"/","s","y","s","/","d","e","v","i","c","e","s","/","p","c","i","0","0","0","0",":","0","0","/","0","0","0","0",":","0","0",":","1","c",".","0","/","0","0","0","0",":","0","a",":","0","0",".","1","/","n","v","m","e","/","n","v","m","e","0">>

PATH_USB == <<"/","s","y","s","/","d","e","v","i","c","e","s","/","p","c","i","0","0","0","0",":","0","0","/","0","0","0","0",":","0","0",":","1","c",".","0","/","u","s","b","1","/","1","-","1","/","h","o","s","t","2","/","t","a","r","g","e","t","2",":","0",":","0","/","2",":","0",":","0",":","0">>

PATH_VIRTUAL == <<"/","s","y","s","/","d","e","v","i","c","e","s","/","v","i","r","t","u","a","l","/","b","l","o","c","k","/","s","d","c">>

PATHS == {PATH_AHCI, PATH_NVME, PATH_USB, PATH_VIRTUAL}

ADDR_ROOT == <<"0","0",":","1","c",".","0">>

ADDR_AHCI == <<"0","1",":","0","0",".","0">>

ADDR_NVME == <<"0","a",":","0","0",".","1">>

\* Every bus address that occurs in a path of PATHS.
ADDRESSES == {ADDR_ROOT, ADDR_AHCI, ADDR_NVME}

\* What `lspci -s <addr>` prints after the address, by device class.
BODY_AHCI == <<"S","A","T","A"," ","c","o","n","t","r","o","l","l","e","r",":"," ","A","H","C","I"," ","C","o","n","t","r","o","l","l","e","r">>

BODY_NVME == <<"N","o","n","-","V","o","l","a","t","i","l","e"," ","m","e","m","o","r","y"," ","c","o","n","t","r","o","l","l","e","r",":"," ","N","V","M","e"," ","S","S","D">>

BODY_BRIDGE == <<"P","C","I"," ","b","r","i","d","g","e",":"," ","R","o","o","t"," ","P","o","r","t">>

\* How a lookup of one address ends: a storage-class line, another line, no
\* output (lspci exits non-zero, run() returns ""), or an exception that is
\* not CalledProcessError (OSError, UnicodeDecodeError) leaving run().
LSPCI_OUTCOMES == {"storage", "other", "empty", "raises"}

UNKNOWN_CONTROLLER == <<"U","n","k","n","o","w","n"," ","C","o","n","t","r","o","l","l","e","r">>

\* ------------------------------------------------------------------------
\* State
\* ------------------------------------------------------------------------

VARIABLES
  variant,           \* which script runs: "v1" or "v2"
  pc,                \* position of the run in main
  lspci,             \* the PCI enumeration: address -> outcome of `lspci -s`
  pending,           \* discovered device names not yet scanned in this loop
  scanned,           \* the devices scanned so far, in discovery order, with
                     \* the controller key resolved for each
  CONTROLLER_DISKS,  \* the defaultdict(list), as its items in insertion order
  output,            \* the groups print_output printed, in order
  exit_status,       \* the process's exit status, -1 while it runs
  passed,            \* the pre-flight checks that have passed so far
  gpu                \* the run of a GPU check script: its inputs, position and results

vars == <<variant, pc, lspci, pending, scanned, CONTROLLER_DISKS, output, exit_status, passed, gpu>>

\* ------------------------------------------------------------------------
\* Controller Resolver
\* ------------------------------------------------------------------------

\* re: [0-9a-f]{2}:[0-9a-f]{2}\.[0-9] matches s at position i.
AddrAt(s, i) ==
  /\ i + 6 <= Len(s)
  /\ s[i] \in HEXLOWER /\ s[i + 1] \in HEXLOWER
  /\ s[i + 2] = ":"
  /\ s[i + 3] \in HEXLOWER /\ s[i + 4] \in HEXLOWER
  /\ s[i + 5] = "."
  /\ s[i + 6] \in DIGITS

\* re.findall of the address pattern from position i on: leftmost,
\* non-overlapping matches in path order.
RECURSIVE FindAddresses(_, _)
FindAddresses(s, i) ==
  IF i + 6 > Len(s) THEN << >>
  ELSE IF AddrAt(s, i) THEN <<SubSeq(s, i, i + 6)>> \o FindAddresses(s, i + 7)
  ELSE FindAddresses(s, i + 1)

\* The candidates left in path order, farthest from the device first.
Reversed_path_order(xs) == xs

\* reversed(xs).
Reversed(xs) == [i \in 1..Len(xs) |-> xs[Len(xs) + 1 - i]]

\* The text of `lspci -s addr` under enumeration `pci`, stripped.
LspciLine(pci, addr) ==
  CASE pci[addr] = "storage" -> addr \o <<" ">> \o (IF addr = ADDR_NVME THEN BODY_NVME ELSE BODY_AHCI)
    [] pci[addr] = "other" -> addr \o <<" ">> \o BODY_BRIDGE
    [] OTHER -> << >>

KEYWORDS == {<<"s","a","t","a">>, <<"r","a","i","d">>, <<"s","a","s">>, <<"s","t","o","r","a","g","e"," ","c","o","n","t","r","o","l","l","e","r">>, <<"n","o","n","-","v","o","l","a","t","i","l","e">>}

\* re.search(r'sata|raid|sas|storage controller|non-volatile', line, re.IGNORECASE).
IsStorageLine(line) == \E k \in KEYWORDS : Contains(Lower(line), k)

\* A key that names the description before the address.
ControllerKey_description_first(addr, line) == Strip(SplitLast(line, ":", 2)) \o <<" ">> \o addr

\* f"{addr} {line.split(':', 2)[-1].strip()}".
ControllerKey(addr, line) == addr \o <<" ">> \o Strip(SplitLast(line, ":", 2))

\* The for loop of get_storage_controller over the candidates still to try: the
\* first storage-class line returns its key; an exception leaves the loop for
\* the except clause and the sentinel is returned.
RECURSIVE ResolveFrom(_, _)
ResolveFrom(pci, candidates) ==
  IF candidates = << >> THEN UNKNOWN_CONTROLLER
  ELSE IF pci[Head(candidates)] = "raises" THEN UNKNOWN_CONTROLLER
  ELSE IF IsStorageLine(LspciLine(pci, Head(candidates)))
       THEN ControllerKey(Head(candidates), LspciLine(pci, Head(candidates)))
  ELSE ResolveFrom(pci, Tail(candidates))

\* get_storage_controller(devpath), real_path being os.path.realpath(devpath).
get_storage_controller(pci, real_path) ==
  ResolveFrom(pci, Reversed(FindAddresses(real_path, 1)))

\* ------------------------------------------------------------------------
\* Controller-Tree Aggregator
\* ------------------------------------------------------------------------

\* A sort key whose fallback precedes every address.
pci_sort_key_fallback_first(controller_id) ==
  IF AddrAt(controller_id, 1)
  THEN <<HexInt(SubSeq(controller_id, 1, 2)),
         HexInt(SubSeq(controller_id, 4, 5)),
         HexInt(SubSeq(controller_id, 7, 7))>>
  ELSE <<-1, -1, -1>>

\* A sort key that compares the device number before the bus number.
pci_sort_key_device_first(controller_id) ==
  IF AddrAt(controller_id, 1)
  THEN <<HexInt(SubSeq(controller_id, 4, 5)),
         HexInt(SubSeq(controller_id, 1, 2)),
         HexInt(SubSeq(controller_id, 7, 7))>>
  ELSE <<999, 999, 999>>

\* pci_sort_key of v2: the (bus, device, function) triple of a leading
\* address, (999, 999, 999) otherwise.
pci_sort_key(controller_id) ==
  IF AddrAt(controller_id, 1)
  THEN <<HexInt(SubSeq(controller_id, 1, 2)),
         HexInt(SubSeq(controller_id, 4, 5)),
         HexInt(SubSeq(controller_id, 7, 7))>>
  ELSE <<999, 999, 999>>

\* The order of v2's sorted(keys, key=lambda k: pci_sort_key(k.split()[0])).
KeyLessV2(a, b) == TupleLess(pci_sort_key(FirstToken(a)), pci_sort_key(FirstToken(b)))

\* The order of v1's sorted(keys): plain string comparison.
KeyLessV1(a, b) == StrLess(a, b)

\* CONTROLLER_DISKS.keys(), in insertion order.
Keys(disks) == [i \in 1..Len(disks) |-> disks[i].key]

\* CONTROLLER_DISKS[key] of a key that is present.
DevicesOf(disks, key) == disks[CHOOSE i \in 1..Len(disks) : disks[i].key = key].devs

\* An insertion that files the entry under the first group whose key has the
\* same description, whatever its address.
Append_entry_by_description(disks, key, entry) ==
  LET same(i) == Drop(disks[i].key, Len(FirstToken(disks[i].key)) + 1)
                   = Drop(key, Len(FirstToken(key)) + 1)
  IN IF \E i \in 1..Len(disks) : same(i)
     THEN LET g == CHOOSE i \in 1..Len(disks) : same(i) /\ \A j \in 1..(i - 1) : ~same(j)
          IN [disks EXCEPT ![g].devs = Append(@, entry)]
     ELSE Append(disks, [key |-> key, devs |-> <<entry>>])

\* An insertion at the head of the key's list instead of its end.
Append_entry_front(disks, key, entry) ==
  IF \E i \in 1..Len(disks) : disks[i].key = key
  THEN [i \in 1..Len(disks) |->
          IF disks[i].key = key
          THEN [key |-> key, devs |-> <<entry>> \o disks[i].devs]
          ELSE disks[i]]
  ELSE Append(disks, [key |-> key, devs |-> <<entry>>])

\* CONTROLLER_DISKS[key].append(entry): a missing key is created at the end.
Append_entry(disks, key, entry) ==
  IF \E i \in 1..Len(disks) : disks[i].key = key
  THEN [i \in 1..Len(disks) |->
          IF disks[i].key = key
          THEN [key |-> key, devs |-> Append(disks[i].devs, entry)]
          ELSE disks[i]]
  ELSE Append(disks, [key |-> key, devs |-> <<entry>>])

\* The order of either script's sort.
KeyLess(v, a, b) == IF v = "v2" THEN KeyLessV2(a, b) ELSE KeyLessV1(a, b)

\* The keys in the order print_output walks them. Python's sort is stable: a
\* key lands after every smaller key and after the earlier keys that compare
\* equal to it.
sorted_keys(v, disks) ==
  LET xs == Keys(disks)
      n == Len(xs)
      pos(i) == Cardinality({j \in 1..n : KeyLess(v, xs[j], xs[i])})
                + Cardinality({j \in 1..(i - 1) :
                                 ~KeyLess(v, xs[i], xs[j]) /\ ~KeyLess(v, xs[j], xs[i])})
                + 1
  IN [p \in 1..n |-> xs[CHOOSE i \in 1..n : pos(i) = p]]

\* A print that walks each group's list from its end.
print_output_devices_reversed(v, disks) ==
  LET ks == sorted_keys(v, disks)
  IN [i \in 1..Len(ks) |-> [key |-> ks[i], devs |-> Reversed(DevicesOf(disks, ks[i]))]]

\* What print_output prints: each group's key, then its devices in list order.
print_output(v, disks) ==
  LET ks == sorted_keys(v, disks)
  IN [i \in 1..Len(ks) |-> [key |-> ks[i], devs |-> DevicesOf(disks, ks[i])]]

\* ------------------------------------------------------------------------
\* Attribute Extractor: more string primitives
\* ------------------------------------------------------------------------

\* The first of the positions `hits`, 0 when there is none.
FirstIndex(hits) == IF hits = {} THEN 0 ELSE CHOOSE i \in hits : \A j \in hits : i <= j

\* p occurs in s at position i.
OccursAt(s, p, i) == i >= 1 /\ i + Len(p) - 1 <= Len(s) /\ SubSeq(s, i, i + Len(p) - 1) = p

\* The first position from i on whose character is not in cs, Len(s) + 1 when
\* every one is: where a greedy [cs]* started at i stops.
SkipWhile(s, i, cs) ==
  LET k == FirstIndex({j \in 1..Len(s) : j >= i /\ s[j] \notin cs})
  IN IF k = 0 THEN Len(s) + 1 ELSE k

\* str.splitlines().
RECURSIVE SplitLines(_)
SplitLines(s) ==
  IF s = << >> THEN << >>
  ELSE LET k == FirstIndex({j \in 1..Len(s) : s[j] = "\n"})
       IN IF k = 0 THEN <<s>>
          ELSE <<SubSeq(s, 1, k - 1)>> \o SplitLines(Drop(s, k + 1))

\* str.split(): the whitespace-separated fields.
RECURSIVE Fields(_)
Fields(s) ==
  LET a == SkipWhile(s, 1, WHITESPACE)
  IN IF a > Len(s) THEN << >>
     ELSE LET k == FirstIndex({j \in 1..Len(s) : j > a /\ s[j] \in WHITESPACE})
              b == IF k = 0 THEN Len(s) + 1 ELSE k
          IN <<SubSeq(s, a, b - 1)>> \o Fields(Drop(s, b))

\* str.isdigit() for the model's characters.
IsDigit(s) == s # << >> /\ \A i \in 1..Len(s) : s[i] \in DIGITS

\* int(s) of a string of decimal digits.
RECURSIVE DecInt(_)
DecInt(s) ==
  IF s = << >> THEN 0
  ELSE 10 * DecInt(SubSeq(s, 1, Len(s) - 1))
       + ((CHOOSE i \in 1..10 : <<"0","1","2","3","4","5","6","7","8","9">>[i] = s[Len(s)]) - 1)

\* The text of the line of s that position i is in, from i to the line's end:
\* what (.+) captures at i.
RestOfLine(s, i) ==
  LET k == FirstIndex({j \in 1..Len(s) : j >= i /\ s[j] = "\n"})
  IN SubSeq(s, i, IF k = 0 THEN Len(s) ELSE k - 1)

\* re.search(r'(\d+)', s): the first maximal run of digits, << >> for no match.
FirstDigits(s) ==
  LET a == FirstIndex({j \in 1..Len(s) : s[j] \in DIGITS})
  IN IF a = 0 THEN << >> ELSE SubSeq(s, a, SkipWhile(s, a, DIGITS) - 1)

\* re.match(r'([0-9.]+ Gb/s)', s[i:]): the run of digits and dots at i with the
\* " Gb/s" that follows it; << >> for no match.
SpeedAt(s, i) ==
  LET nums == DIGITS \cup {"."}
  IN IF i <= Len(s) /\ s[i] \in nums /\ OccursAt(s, <<" ","G","b","/","s">>, SkipWhile(s, i, nums))
     THEN SubSeq(s, i, SkipWhile(s, i, nums) + 4)
     ELSE << >>

\* re.search(r'([\d.]+ Gb/s)', s): the leftmost such match; << >> for no match.
SpeedSearch(s) ==
  LET a == FirstIndex({j \in 1..Len(s) : SpeedAt(s, j) # << >>})
  IN IF a = 0 THEN << >> ELSE SpeedAt(s, a)

\* re.search(label + r'\s*:\s*(.+)' or label + r':\s*(.+)', text, re.IGNORECASE)
\* on a text that run() of v1 has stripped: group 1 stripped, << >> for no
\* match.  \s* runs over line ends, so the capture is the next text after the
\* colon, on whichever line it stands; a stripped text does not end in
\* whitespace, so a match always captures a non-blank character.
LabelValue(text, label, spaced) ==
  LET low == Lower(text)
      colon(p) == IF spaced THEN SkipWhile(text, p + Len(label), WHITESPACE)
                  ELSE p + Len(label)
      value(p) == SkipWhile(text, colon(p) + 1, WHITESPACE)
      p0 == FirstIndex({p \in 1..Len(text) :
              /\ OccursAt(low, Lower(label), p)
              /\ colon(p) <= Len(text) /\ text[colon(p)] = ":"
              /\ value(p) <= Len(text)})
  IN IF p0 = 0 THEN << >> ELSE Strip(RestOfLine(text, value(p0)))

\* ------------------------------------------------------------------------
\* Attribute Extractor and Classification Engine
\* ------------------------------------------------------------------------

UNKNOWN == <<"u","n","k","n","o","w","n">>

\* The three renderings of format_smart_health.
HEALTHY == "healthy"

HEALTH_UNKNOWN == "unknown"

HEALTH_FAILED == "failed"

NO_TEMPERATURE == <<"N","/","A">>

\* v2 parse_smartctl_output(output, key).
parse_smartctl_output(out, key) ==
  LET lines == SplitLines(out)
      i == FirstIndex({j \in 1..Len(lines) :
             Contains(Lower(lines[j]), Lower(key)) /\ Contains(lines[j], <<":">>)})
  IN IF i = 0 THEN UNKNOWN
     ELSE Strip(Drop(lines[i], FirstIndex({k \in 1..Len(lines[i]) : lines[i][k] = ":"}) + 1))

\* v2 parse_smart_health(output).
parse_smart_health(out) ==
  LET lines == SplitLines(out)
      i == FirstIndex({j \in 1..Len(lines) :
             /\ Contains(Lower(lines[j]), <<"s","m","a","r","t">>)
             /\ \/ Contains(Lower(lines[j]), <<"r","e","s","u","l","t">>)
                \/ Contains(Lower(lines[j]), <<"a","s","s","e","s","s","m","e","n","t">>)})
  IN IF i = 0 THEN << >> ELSE Strip(SplitLast(lines[i], ":", 1))

\* str.upper() of the statuses compared: only lower-case letters change.
Upper(s) ==
  [i \in 1..Len(s) |->
     IF \E k \in 1..26 : LOWERCASE[k] = s[i]
     THEN UPPERCASE[CHOOSE k \in 1..26 : LOWERCASE[k] = s[i]]
     ELSE s[i]]

PASS_MARKERS == {<<"P","A","S","S","E","D">>, <<"O","K">>, <<"0">>}

\* format_smart_health(status): v2 compares status.upper(), v1 status itself.
format_smart_health(v, status) ==
  IF (IF v = "v2" THEN Upper(status) ELSE status) \in PASS_MARKERS THEN HEALTHY
  ELSE IF status = << >> THEN HEALTH_UNKNOWN
  ELSE HEALTH_FAILED

\* v1: re.search(r"(PASSED|OK|FAILED)", text, re.IGNORECASE), group 1 in upper
\* case; << >> for no match.
HealthMatch(text) ==
  LET up == Upper(text)
      marks == <<<<"P","A","S","S","E","D">>, <<"O","K">>, <<"F","A","I","L","E","D">>>>
      p == FirstIndex({j \in 1..Len(up) : \E m \in 1..3 : OccursAt(up, marks[m], j)})
  IN IF p = 0 THEN << >>
     ELSE marks[CHOOSE m \in 1..3 : OccursAt(up, marks[m], p)
                                    /\ \A k \in 1..(m - 1) : ~OccursAt(up, marks[k], p)]

\* v1 get_drive_temperature(device) on the output of smartctl -A: in the first
\* line naming a temperature that holds one, the last field that is a number
\* in the open interval (0, 150).
TemperatureV1(attrs) ==
  LET lines == SplitLines(attrs)
      plausible(val) == IsDigit(val) /\ 0 < DecInt(val) /\ DecInt(val) < 150
      i == FirstIndex({j \in 1..Len(lines) :
             /\ \/ Contains(lines[j], <<"T","e","m","p","e","r","a","t","u","r","e">>)
                \/ Contains(lines[j], <<"t","e","m","p","e","r","a","t","u","r","e">>)
             /\ \E k \in 1..Len(Fields(lines[j])) : plausible(Fields(lines[j])[k])})
  IN IF i = 0 THEN NO_TEMPERATURE
     ELSE LET fs == Fields(lines[i])
          IN fs[CHOOSE k \in 1..Len(fs) :
                  plausible(fs[k]) /\ \A m \in (k + 1)..Len(fs) : ~plausible(fs[m])]

\* v2 get_drive_temperature(device, "sata") on the output of smartctl -A: the
\* tenth field of the first line naming "temp" whose tenth field is a number.
TemperatureSataV2(attrs) ==
  LET lines == SplitLines(attrs)
      i == FirstIndex({j \in 1..Len(lines) :
             /\ Contains(Lower(lines[j]), <<"t","e","m","p">>)
             /\ Len(Fields(lines[j])) >= 10
             /\ IsDigit(Fields(lines[j])[10])})
  IN IF i = 0 THEN NO_TEMPERATURE ELSE Fields(lines[i])[10]

\* v2 get_drive_temperature(device, "nvme") on the output of nvme smart-log:
\* the first number of the first line starting with "temperature" that has one.
TemperatureNvmeV2(smart_log) ==
  LET lines == SplitLines(smart_log)
      i == FirstIndex({j \in 1..Len(lines) :
             /\ StartsWith(Lower(Strip(lines[j])), <<"t","e","m","p","e","r","a","t","u","r","e">>)
             /\ FirstDigits(lines[j]) # << >>})
  IN IF i = 0 THEN NO_TEMPERATURE ELSE FirstDigits(lines[i])

\* v2 grep_val(field) of process_nvme_disks over the id-ctrl output.
grep_val(idctrl, field) ==
  LET lines == SplitLines(idctrl)
      i == FirstIndex({j \in 1..Len(lines) :
             StartsWith(Lower(Strip(lines[j])), Lower(field))})
  IN IF i = 0 THEN <<"?","?">> ELSE Strip(SplitLast(lines[i], ":", 1))

\* v1 clean_model_name(model): re.sub(r"^ATA\s+", "", model).strip().
clean_model_name(model) ==
  IF StartsWith(model, <<"A","T","A">>) /\ Len(model) > 3 /\ model[4] \in WHITESPACE
  THEN Strip(Drop(model, SkipWhile(model, 4, WHITESPACE)))
  ELSE Strip(model)

\* v1 get_smart_field(device, label) on the output of smartctl -i.
get_smart_field_v1(info, label) ==
  IF LabelValue(info, label, FALSE) = << >> THEN UNKNOWN ELSE LabelValue(info, label, FALSE)

\* "SATA6" / "SATA3" / "SATA?" of a speed string, as get_sata_version_and_link
\* derives iface and link.
SataTier(speed) ==
  IF Contains(speed, <<"6",".","0">>) THEN <<"S","A","T","A","6">>
  ELSE IF Contains(speed, <<"3",".","0">>) THEN <<"S","A","T","A","3">>
  ELSE <<"S","A","T","A","?">>

\* v1: re.search(r"SATA Version is:\s*.*?,\s*([0-9.]+ Gb/s)", info), group 1:
\* after the label, the speed behind the first comma of that line that has a
\* speed behind it; << >> for no match.
SataCapable(info) ==
  LET label == <<"S","A","T","A"," ","V","e","r","s","i","o","n"," ","i","s",":">>
      start(p) == SkipWhile(info, p + Len(label), WHITESPACE)
      speedAfter(c) == SpeedAt(info, SkipWhile(info, c + 1, WHITESPACE))
      comma(p) == FirstIndex({c \in 1..Len(info) :
                    /\ c >= start(p) /\ info[c] = ","
                    /\ \A k \in start(p)..c : info[k] # "\n"
                    /\ speedAfter(c) # << >>})
      p0 == FirstIndex({p \in 1..Len(info) : OccursAt(info, label, p) /\ comma(p) # 0})
  IN IF p0 = 0 THEN << >> ELSE speedAfter(comma(p0))

\* v1: re.search(r"current:\s*([0-9.]+ Gb/s)", info), group 1; << >> for no match.
SataCurrent(info) ==
  LET label == <<"c","u","r","r","e","n","t",":">>
      speedAfter(p) == SpeedAt(info, SkipWhile(info, p + Len(label), WHITESPACE))
      p0 == FirstIndex({p \in 1..Len(info) : OccursAt(info, label, p) /\ speedAfter(p) # << >>})
  IN IF p0 = 0 THEN << >> ELSE speedAfter(p0)

\* v2 get_sata_speed_label(info_text): re.search(r"SATA Version is:\s*([0-9.]+)").
get_sata_speed_label(info) ==
  LET label == <<"S","A","T","A"," ","V","e","r","s","i","o","n"," ","i","s",":">>
      nums == DIGITS \cup {"."}
      at(p) == SkipWhile(info, p + Len(label), WHITESPACE)
      p0 == FirstIndex({p \in 1..Len(info) :
              OccursAt(info, label, p) /\ at(p) <= Len(info) /\ info[at(p)] \in nums})
      speed == SubSeq(info, at(p0), SkipWhile(info, at(p0), nums) - 1)
  IN IF p0 = 0 THEN <<"S","A","T","A">>
     ELSE IF StartsWith(speed, <<"6">>) THEN <<"S","A","T","A","6">>
     ELSE IF StartsWith(speed, <<"3">>) THEN <<"S","A","T","A","3">>
     ELSE IF StartsWith(speed, <<"1",".","5">>) THEN <<"S","A","T","A","1">>
     ELSE <<"S","A","T","A">> \o SelectSeq(speed, LAMBDA c : c # ".")

\* v2: the linkspeed loop of process_sata_disks: the first speed of the last
\* line that names "current" and "Gb/s" and holds one; "unknown" for none.
LinkSpeedV2(info) ==
  LET lines == SplitLines(info)
      hit(j) == /\ Contains(Lower(lines[j]), <<"c","u","r","r","e","n","t">>)
                /\ Contains(lines[j], <<"G","b","/","s">>)
                /\ SpeedSearch(lines[j]) # << >>
      i == FirstIndex({j \in 1..Len(lines) : hit(j) /\ \A k \in (j + 1)..Len(lines) : ~hit(k)})
  IN IF i = 0 THEN UNKNOWN ELSE SpeedSearch(lines[i])

\* v1 get_sata_version_and_link(info_output): <<iface, link>>.
get_sata_version_and_link(info) ==
  LET max_speed == IF SataCapable(info) = << >> THEN UNKNOWN ELSE SataCapable(info)
      link_speed == IF SataCurrent(info) = << >> THEN max_speed ELSE SataCurrent(info)
  IN <<SataTier(max_speed), SataTier(link_speed)>>

\* speed_order.get(tier, 0) of v1 color_link_speed.
speed_order(tier) ==
  CASE tier = <<"S","A","T","A","1">> -> 1
    [] tier = <<"S","A","T","A","3">> -> 3
    [] tier = <<"S","A","T","A","6">> -> 6
    [] OTHER -> 0

\* v1 color_link_speed(link, max_iface) takes its first branch, the bold red
\* that marks a link slower than the interface allows.
LinkDegraded(link, max_iface) ==
  speed_order(max_iface) # 0 /\ speed_order(link) < speed_order(max_iface)

\* ------------------------------------------------------------------------
\* Tool outputs a scan may meet
\* ------------------------------------------------------------------------

INFO_FULL == <<"S","e","r","i","a","l"," ","N","u","m","b","e","r",":"," ","S","1","\n","F","i","r","m","w","a","r","e"," ","V","e","r","s","i","o","n",":"," ","F","1","\n","S","A","T","A"," ","V","e","r","s","i","o","n"," ","i","s",":"," ","S","A","T","A"," ","3",".","3",","," ","6",".","0"," ","G","b","/","s"," ","(","c","u","r","r","e","n","t",":"," ","6",".","0"," ","G","b","/","s",")">>

INFO_SLOW3 == <<"S","e","r","i","a","l"," ","N","u","m","b","e","r",":"," ","S","2","\n","F","i","r","m","w","a","r","e"," ","V","e","r","s","i","o","n",":"," ","F","1","\n","S","A","T","A"," ","V","e","r","s","i","o","n"," ","i","s",":"," ","S","A","T","A"," ","3",".","3",","," ","6",".","0"," ","G","b","/","s"," ","(","c","u","r","r","e","n","t",":"," ","3",".","0"," ","G","b","/","s",")">>

INFO_SLOW1 == <<"S","e","r","i","a","l"," ","N","u","m","b","e","r",":"," ","S","3","\n","F","i","r","m","w","a","r","e"," ","V","e","r","s","i","o","n",":","\n","S","A","T","A"," ","V","e","r","s","i","o","n"," ","i","s",":"," ","S","A","T","A"," ","3",".","3",","," ","6",".","0"," ","G","b","/","s"," ","(","c","u","r","r","e","n","t",":"," ","1",".","5"," ","G","b","/","s",")">>

HEALTH_PASSED == <<"S","M","A","R","T"," ","o","v","e","r","a","l","l","-","h","e","a","l","t","h"," ","s","e","l","f","-","a","s","s","e","s","s","m","e","n","t"," ","t","e","s","t"," ","r","e","s","u","l","t",":"," ","P","A","S","S","E","D">>

HEALTH_FAILING == <<"S","M","A","R","T"," ","o","v","e","r","a","l","l","-","h","e","a","l","t","h"," ","s","e","l","f","-","a","s","s","e","s","s","m","e","n","t"," ","t","e","s","t"," ","r","e","s","u","l","t",":"," ","F","A","I","L","E","D","!">>

ATTRS_45 == <<"1","9","4"," ","T","e","m","p","e","r","a","t","u","r","e","_","C","e","l","s","i","u","s"," ","0","x","0","0","2","2"," ","0","4","0"," ","0","5","3"," ","0","0","0"," ","O","l","d","_","a","g","e"," ","A","l","w","a","y","s"," ","-"," ","4","5">>

ATTRS_200 == <<"1","9","4"," ","T","e","m","p","e","r","a","t","u","r","e","_","C","e","l","s","i","u","s"," ","0","x","0","0","2","2"," ","0","4","0"," ","0","5","3"," ","0","0","0"," ","O","l","d","_","a","g","e"," ","A","l","w","a","y","s"," ","-"," ","2","0","0">>

\* What the tools print for one sd* device: cat model, cat vendor,
\* smartctl -i, smartctl -H, smartctl -A.  The last has every command fail.
SATA_OUTPUTS ==
  [ok    |-> [model |-> <<"A","T","A"," "," ","M","1","\n">>, vendor |-> <<"A","T","A","\n">>, info |-> INFO_FULL,
              health |-> HEALTH_PASSED, attrs |-> ATTRS_45],
   worn  |-> [model |-> <<"M","2","\n">>, vendor |-> <<"V","2","\n">>, info |-> INFO_SLOW3,
              health |-> HEALTH_FAILING, attrs |-> ATTRS_200],
   quiet |-> [model |-> <<"M","3","\n">>, vendor |-> <<"V","3","\n">>, info |-> INFO_SLOW1,
              health |-> <<"s","m","a","r","t","c","t","l"," ","7",".","2">>, attrs |-> <<"I","D"," ","A","T","T","R","I","B","U","T","E","_","N","A","M","E">>],
   fails |-> [model |-> << >>, vendor |-> << >>, info |-> << >>,
              health |-> << >>, attrs |-> << >>]]

IDCTRL_FULL == <<"v","i","d"," ",":"," ","0","x","1","4","4","d","\n","s","n"," ",":"," ","S","4","\n","m","n"," ",":"," ","M","4","\n","f","r"," ",":"," ","F","4">>

SMARTLOG_FINE == <<"c","r","i","t","i","c","a","l","_","w","a","r","n","i","n","g"," ",":"," ","0","\n","t","e","m","p","e","r","a","t","u","r","e"," ",":"," ","4","5"," ","C">>

\* What the tools and sysfs give for one nvmeXn1 node: nvme id-ctrl -H,
\* nvme smart-log, smartctl -A, current_link_speed and current_link_width
\* (<< >>: the file cannot be read).
NVME_OUTPUTS ==
  [ok    |-> [idctrl |-> IDCTRL_FULL, smart_log |-> SMARTLOG_FINE, attrs |-> ATTRS_45,
              speed |-> <<"8",".","0"," ","G","T","/","s"," ","P","C","I","e","\n">>, width |-> <<"4","\n">>],
   nolog |-> [idctrl |-> IDCTRL_FULL, smart_log |-> << >>, attrs |-> << >>,
              speed |-> << >>, width |-> << >>],
   fails |-> [idctrl |-> << >>, smart_log |-> << >>, attrs |-> << >>,
              speed |-> << >>, width |-> << >>]]

\* The disks a machine may hold: each with the canonical path of its sysfs
\* device link and with what the tools print for it.
SATA_DISKS ==
  {[name |-> <<"s","d","a">>, real_path |-> PATH_VIRTUAL, outputs |-> "quiet"],
   [name |-> <<"s","d","b">>, real_path |-> PATH_AHCI, outputs |-> "ok"],
   [name |-> <<"s","d","c">>, real_path |-> PATH_AHCI, outputs |-> "worn"],
   [name |-> <<"s","d","d">>, real_path |-> PATH_USB, outputs |-> "fails"]}

NVME_DISKS ==
  {[name |-> <<"n","v","m","e","0","n","1">>, real_path |-> PATH_NVME, outputs |-> "ok"],
   [name |-> <<"n","v","m","e","1","n","1">>, real_path |-> PATH_NVME, outputs |-> "fails"],
   [name |-> <<"n","v","m","e","2","n","1">>, real_path |-> PATH_VIRTUAL, outputs |-> "nolog"]}

\* The disk of that name.
Disk(name) == CHOOSE d \in SATA_DISKS \cup NVME_DISKS : d.name = name

\* Entries os.listdir("/sys/block") and os.listdir("/dev") may return: the
\* disks, and nodes that are none.
SYS_BLOCK_POOL == {d.name : d \in SATA_DISKS} \cup {<<"l","o","o","p","0">>, <<"n","v","m","e","0","n","1">>}

DEV_POOL == {d.name : d \in NVME_DISKS} \cup {<<"n","v","m","e","0">>, <<"n","v","m","e","0","n","2">>, <<"s","d","b">>}

\* dev.startswith("sd").
IsSataEntry(dev) == StartsWith(dev, <<"s","d">>)

\* re.match(r'nvme\d+n1$', entry).
IsNvmeEntry(entry) ==
  /\ StartsWith(entry, <<"n","v","m","e">>)
  /\ Len(entry) > 4 /\ entry[5] \in DIGITS
  /\ Drop(entry, SkipWhile(entry, 5, DIGITS)) = <<"n","1">>

\* ------------------------------------------------------------------------
\* Report entries
\* ------------------------------------------------------------------------

NOT_PRINTED == <<"-">>

\* The line process_sata_disks builds from the outputs o, as its fields (the
\* size column, printed as lsblk gave it, is left out; the device is filled in
\* by SataEntry).
SataFields(v, o) ==
  IF v = "v2"
  THEN [device |-> << >>, kind |-> "sata",
        vendor |-> Strip(o.vendor), model |-> Strip(o.model),
        iface |-> get_sata_speed_label(o.info),
        link |-> LinkSpeedV2(o.info), degraded |-> FALSE,
        health |-> format_smart_health(v, parse_smart_health(o.health)),
        temperature |-> TemperatureSataV2(o.attrs),
        serial |-> parse_smartctl_output(o.info, <<"S","e","r","i","a","l"," ","N","u","m","b","e","r">>),
        firmware |-> parse_smartctl_output(o.info, <<"F","i","r","m","w","a","r","e"," ","V","e","r","s","i","o","n">>)]
  ELSE [device |-> << >>, kind |-> "sata",
        vendor |-> NOT_PRINTED, model |-> clean_model_name(Strip(o.model)),
        iface |-> get_sata_version_and_link(Strip(o.info))[1],
        link |-> get_sata_version_and_link(Strip(o.info))[2],
        degraded |-> LinkDegraded(get_sata_version_and_link(Strip(o.info))[2],
                                  get_sata_version_and_link(Strip(o.info))[1]),
        health |-> format_smart_health(v, HealthMatch(Strip(o.health))),
        temperature |-> TemperatureV1(Strip(o.attrs)),
        serial |-> get_smart_field_v1(Strip(o.info), <<"S","e","r","i","a","l"," ","N","u","m","b","e","r">>),
        firmware |-> get_smart_field_v1(Strip(o.info), <<"F","i","r","m","w","a","r","e"," ","V","e","r","s","i","o","n">>)]

\* v1: re.search(r"critical_warning\s*:\s*(\d+)", smart_log) found the counter
\* and it reads "0".
CriticalWarningZero(smart_log) ==
  LET label == <<"c","r","i","t","i","c","a","l","_","w","a","r","n","i","n","g">>
      colon(p) == SkipWhile(smart_log, p + Len(label), WHITESPACE)
      value(p) == SkipWhile(smart_log, colon(p) + 1, WHITESPACE)
      p0 == FirstIndex({p \in 1..Len(smart_log) :
              /\ OccursAt(smart_log, label, p)
              /\ colon(p) <= Len(smart_log) /\ smart_log[colon(p)] = ":"
              /\ value(p) <= Len(smart_log) /\ smart_log[value(p)] \in DIGITS})
  IN p0 # 0 /\ SubSeq(smart_log, value(p0), SkipWhile(smart_log, value(p0), DIGITS) - 1) = <<"0">>

\* v1: "unknown" for a field whose pattern does not match the id-ctrl output.
IdField(idctrl, label) ==
  IF LabelValue(idctrl, label, TRUE) = << >> THEN UNKNOWN ELSE LabelValue(idctrl, label, TRUE)

\* The line process_nvme_disks builds from the outputs o when the id-ctrl
\* output is not empty, as its fields.
NvmeFields(v, o) ==
  IF v = "v2"
  THEN [device |-> << >>, kind |-> "nvme",
        vendor |-> <<"0","x">> \o grep_val(o.idctrl, <<"V","I","D">>), model |-> grep_val(o.idctrl, <<"M","N">>),
        iface |-> <<"N","V","M","e">>,
        link |-> IF o.speed = << >> \/ o.width = << >>
                 THEN <<"P","C","I","e"," ","u","n","k","n","o","w","n"," ","P","C","I","e"," ","x","u","n","k","n","o","w","n">>
                 ELSE <<"P","C","I","e"," ">> \o Strip(o.speed) \o <<" ","P","C","I","e"," ","x">> \o Strip(o.width),
        degraded |-> FALSE,
        health |-> format_smart_health(v, grep_val(o.idctrl, <<"c","r","i","t","i","c","a","l","_","w","a","r","n","i","n","g">>)),
        temperature |-> TemperatureNvmeV2(o.smart_log),
        serial |-> grep_val(o.idctrl, <<"S","N">>),
        firmware |-> grep_val(o.idctrl, <<"F","R">>)]
  ELSE [device |-> << >>, kind |-> "nvme",
        vendor |-> NOT_PRINTED,
        model |-> IF LabelValue(Strip(o.idctrl), <<"m","n">>, TRUE) = << >> THEN UNKNOWN
                  ELSE clean_model_name(LabelValue(Strip(o.idctrl), <<"m","n">>, TRUE)),
        iface |-> <<"N","V","M","e">>,
        link |-> Strip(<<"P","C","I","e"," ">> \o Strip(o.speed) \o <<" ","x">> \o Strip(o.width)),
        degraded |-> FALSE,
        health |-> format_smart_health(v, IF CriticalWarningZero(Strip(o.smart_log))
                                          THEN <<"O","K">> ELSE <<"F","A","I","L","E","D">>),
        temperature |-> TemperatureV1(Strip(o.attrs)),
        serial |-> IdField(Strip(o.idctrl), <<"s","n">>),
        firmware |-> IdField(Strip(o.idctrl), <<"f","r">>)]

\* process_nvme_disks skips the node: `if not idctrl: continue`.  run() of v1
\* strips the output first, run() of v2 does not.
NvmeSkipped(v, o) == IF v = "v2" THEN o.idctrl = << >> ELSE Strip(o.idctrl) = << >>

\* The fields of every variant and tool output of the pools, computed once.
SATA_FIELDS == [v \in VARIANTS |-> [out \in DOMAIN SATA_OUTPUTS |-> SataFields(v, SATA_OUTPUTS[out])]]

NVME_FIELDS == [v \in VARIANTS |-> [out \in DOMAIN NVME_OUTPUTS |-> NvmeFields(v, NVME_OUTPUTS[out])]]

NVME_SKIPPED == [v \in VARIANTS |-> [out \in DOMAIN NVME_OUTPUTS |-> NvmeSkipped(v, NVME_OUTPUTS[out])]]

\* The report line of device /dev/<dev> whose tools print SATA_OUTPUTS[out].
SataEntry(v, dev, out) == [SATA_FIELDS[v][out] EXCEPT !.device = <<"/","d","e","v","/">> \o dev]

\* The report line of node /dev/<entry> whose tools print NVME_OUTPUTS[out].
NvmeEntry(v, entry, out) == [NVME_FIELDS[v][out] EXCEPT !.device = <<"/","d","e","v","/">> \o entry]

\* get_storage_controller for every enumeration and path of the pools,
\* computed once.
RESOLVED ==
  [pci \in [ADDRESSES -> LSPCI_OUTCOMES] |->
     [real_path \in PATHS |-> get_storage_controller(pci, real_path)]]

\* ---------------------------------------------------------------------------
\* The GPU check scripts.

\* The three scripts: src/linux/graphictools/check_amd_gpu.py,
\* src/linux/graphictools/compile_rusticl_staging/80_check_amd_gpu.py and
\* src/graphictools/compile_rusticl_staging/80_check_amd_gpu.py.
GPU_SCRIPTS == {"check_amd_gpu", "linux_80_check_amd_gpu", "80_check_amd_gpu"}

\* The scripts that define count_amd_gpus_clinfo.
COUNTING_SCRIPTS == {"check_amd_gpu", "linux_80_check_amd_gpu"}

\* The longest clinfo output drawn, in device blocks.
MaxBlocks == 2

\* Device blocks of a clinfo output: each starts at a "Device Name" line and
\* ends with an empty line.
CLINFO_BLOCKS == {
  <<" "," ","D","e","v","i","c","e"," ","N","a","m","e"," "," "," "," "," "," "," ","g","f","x","1","0","3","0","\n"," "," ","D","e","v","i","c","e"," ","V","e","n","d","o","r"," "," "," "," "," ","A","d","v","a","n","c","e","d"," ","M","i","c","r","o"," ","D","e","v","i","c","e","s","\n"," "," ","D","e","v","i","c","e"," ","T","y","p","e"," "," "," "," "," "," "," ","G","P","U","\n"," "," ","M","a","x"," ","c","o","m","p","u","t","e"," ","u","n","i","t","s"," ","3","6","\n","\n">>,
  <<" "," ","D","e","v","i","c","e"," ","N","a","m","e"," "," "," "," "," "," "," ","g","f","x","1","0","3","0","\n"," "," ","D","e","v","i","c","e"," ","T","y","p","e"," "," "," "," "," "," "," ","G","P","U","\n"," "," ","D","e","v","i","c","e"," ","V","e","n","d","o","r"," "," "," "," "," ","A","d","v","a","n","c","e","d"," ","M","i","c","r","o"," ","D","e","v","i","c","e","s","\n"," "," ","M","a","x"," ","c","o","m","p","u","t","e"," ","u","n","i","t","s"," ","3","6","\n","\n">>,
  <<" "," ","D","e","v","i","c","e"," ","N","a","m","e"," "," "," "," "," "," "," ","g","f","x","1","0","3","0","\n"," "," ","D","e","v","i","c","e"," ","V","e","n","d","o","r"," "," "," "," "," ","A","d","v","a","n","c","e","d"," ","M","i","c","r","o"," ","D","e","v","i","c","e","s","\n"," "," ","D","e","v","i","c","e"," ","T","y","p","e"," "," "," "," "," "," "," ","G","P","U","\n","\n">>,
  <<" "," ","D","e","v","i","c","e"," ","N","a","m","e"," "," "," "," "," "," "," ","g","f","x","1","0","3","0","\n"," "," ","M","a","x"," ","c","o","m","p","u","t","e"," ","u","n","i","t","s"," ","3","6","\n"," "," ","D","e","v","i","c","e"," ","V","e","n","d","o","r"," "," "," "," "," ","A","d","v","a","n","c","e","d"," ","M","i","c","r","o"," ","D","e","v","i","c","e","s","\n"," "," ","D","e","v","i","c","e"," ","T","y","p","e"," "," "," "," "," "," "," ","G","P","U","\n","\n">>,
  <<" "," ","D","e","v","i","c","e"," ","N","a","m","e"," "," "," "," "," "," "," ","g","f","x","1","0","3","0","\n"," "," ","D","e","v","i","c","e"," ","V","e","n","d","o","r"," "," "," "," "," ","I","n","t","e","l","\n"," "," ","D","e","v","i","c","e"," ","T","y","p","e"," "," "," "," "," "," "," ","G","P","U","\n"," "," ","M","a","x"," ","c","o","m","p","u","t","e"," ","u","n","i","t","s"," ","3","6","\n","\n">>,
  <<" "," ","D","e","v","i","c","e"," ","N","a","m","e"," "," "," "," "," "," "," ","g","f","x","1","0","3","0","\n"," "," ","D","e","v","i","c","e"," ","V","e","n","d","o","r"," "," "," "," "," ","A","d","v","a","n","c","e","d"," ","M","i","c","r","o"," ","D","e","v","i","c","e","s","\n"," "," ","D","e","v","i","c","e"," ","T","y","p","e"," "," "," "," "," "," "," ","C","P","U","\n"," "," ","M","a","x"," ","c","o","m","p","u","t","e"," ","u","n","i","t","s"," ","3","6","\n","\n">>,
  <<" "," ","D","e","v","i","c","e"," ","N","a","m","e"," "," "," "," "," "," "," ","g","f","x","1","0","3","0","\n"," "," ","D","e","v","i","c","e"," ","V","e","n","d","o","r",":"," ","A","M","D","\n"," "," ","D","e","v","i","c","e"," ","T","y","p","e",":"," ","G","P","U","\n"," "," ","M","a","x"," ","c","o","m","p","u","t","e"," ","u","n","i","t","s",":"," ","3","6","\n"," "," ","G","l","o","b","a","l"," ","m","e","m","o","r","y"," ","s","i","z","e",":"," ","8","5","8","9","9","3","4","5","9","2","\n","\n">>,
  <<" "," ","D","e","v","i","c","e"," ","N","a","m","e"," "," "," "," "," "," "," ","g","f","x","1","0","3","0","\n"," "," ","D","e","v","i","c","e"," ","V","e","n","d","o","r",":"," ","A","M","D","\n"," "," ","D","e","v","i","c","e"," ","T","y","p","e",":"," ","G","P","U","\n"," "," ","M","a","x"," ","c","o","m","p","u","t","e"," ","u","n","i","t","s",":"," ","3","6","\n"," "," ","G","l","o","b","a","l"," ","m","e","m","o","r","y"," ","s","i","z","e",":"," ","8"," ","G","i","B","\n","\n">> }

\* The clinfo outputs of up to n device blocks.
RECURSIVE ClinfoTexts(_)
ClinfoTexts(n) ==
  IF n = 0 THEN {<< >>}
  ELSE LET shorter == ClinfoTexts(n - 1)
       IN shorter \cup {t \o b : t \in shorter, b \in CLINFO_BLOCKS}

CLINFO_TEXTS == ClinfoTexts(MaxBlocks)

\* The vendor test of count_amd_gpus_clinfo: re.search(r"AMD|Advanced Micro
\* Devices", line, re.I) in check_amd_gpu.py, the case-sensitive
\* `"AMD" in line or "Advanced Micro Devices" in line` in 80_check_amd_gpu.py.
NamesAmd(script, line) ==
  IF script = "check_amd_gpu"
  THEN Contains(Lower(line), <<"a","m","d">>) \/ Contains(Lower(line), <<"a","d","v","a","n","c","e","d"," ","m","i","c","r","o"," ","d","e","v","i","c","e","s">>)
  ELSE Contains(line, <<"A","M","D">>) \/ Contains(line, <<"A","d","v","a","n","c","e","d"," ","M","i","c","r","o"," ","D","e","v","i","c","e","s">>)

\* The loop of count_amd_gpus_clinfo from line i on, with the flags v and g
\* and the count so far.
RECURSIVE CountFrom(_, _, _, _, _, _)
CountFrom(script, lines, i, v, g, count) ==
  IF i > Len(lines) THEN count
  ELSE LET line == LStrip(lines[i])
       IN IF StartsWith(line, <<"D","e","v","i","c","e"," ","N","a","m","e">>)
          THEN CountFrom(script, lines, i + 1, FALSE, FALSE, count)
          ELSE IF StartsWith(line, <<"D","e","v","i","c","e"," ","V","e","n","d","o","r">>) /\ NamesAmd(script, line)
          THEN CountFrom(script, lines, i + 1, TRUE, g, count)
          ELSE IF StartsWith(line, <<"D","e","v","i","c","e"," ","T","y","p","e">>) /\ Contains(line, <<"G","P","U">>)
          THEN CountFrom(script, lines, i + 1, v, TRUE, count)
          ELSE IF StartsWith(line, <<"M","a","x"," ","c","o","m","p","u","t","e"," ","u","n","i","t","s">>) /\ v /\ g
          THEN CountFrom(script, lines, i + 1, FALSE, FALSE, count + 1)
          ELSE CountFrom(script, lines, i + 1, v, g, count)

count_amd_gpus_clinfo(script, clinfo_out) ==
  CountFrom(script, SplitLines(clinfo_out), 1, FALSE, FALSE, 0)

\* The outcome of a command: the tool is not installed ("missing"), the command
\* failed ("failed": run returns None), or it printed text.
Outcome(status, text) == [status |-> status, text |-> text]

\* The state of the gpu variable while no GPU script runs.
GPU_IDLE ==
  [script |-> "none", pc |-> "idle", lspci_k |-> Outcome("none", << >>), clinfo |-> Outcome("none", << >>),
   vulkan_summary |-> Outcome("none", << >>), vulkaninfo |-> Outcome("none", << >>),
   executed |-> << >>, returned |-> << >>, count |-> -1, summary |-> "none", exit_status |-> -1]

\* run of check_amd_gpu.py and of the linux 80_check_amd_gpu.py catches OSError
\* and CalledProcessError: output that cannot be decoded as text raises through
\* it. run of src/graphictools/.../80_check_amd_gpu.py catches every Exception.
RunRaises(script, outcome) ==
  outcome.status = "undecodable" /\ script # "80_check_amd_gpu"

\* run returned None.
RunIsNone(outcome) == outcome.status # "text"

\* `if out:` for what run returned: neither None nor the empty string.
Truthy(outcome) == outcome.status = "text" /\ outcome.text # << >>

\* Outcomes of `lspci -k`.
LSPCI_K_OUTCOMES == {
  Outcome("failed", << >>),
  Outcome("undecodable", << >>),
  Outcome("text", << >>),
  Outcome("text", <<"0","3",":","0","0",".","0"," ","V","G","A","\n"," "," ","K","e","r","n","e","l"," ","d","r","i","v","e","r"," ","i","n"," ","u","s","e",":"," ","r","a","d","e","o","n","\n">>),
  Outcome("text", <<"0","3",":","0","0",".","0"," ","V","G","A","\n"," "," ","K","e","r","n","e","l"," ","d","r","i","v","e","r"," ","i","n"," ","u","s","e",":"," ","a","m","d","g","p","u","\n">>) }

\* The number of GPUs on the amdgpu driver: in check_amd_gpu.py
\* len(re.findall(r"Kernel driver in use:\s*amdgpu", lspci, re.I)), in the two
\* 80_check_amd_gpu.py the number of lines holding "Kernel driver in use: amdgpu".
get_amdgpu_gpu_count(script, lspci_out) ==
  IF script = "check_amd_gpu"
  THEN LET low == Lower(lspci_out)
           label == <<"k","e","r","n","e","l"," ","d","r","i","v","e","r"," ","i","n"," ","u","s","e",":">>
       IN Cardinality({i \in 1..Len(low) :
            OccursAt(low, label, i) /\ StartsWith(LStrip(Drop(low, i + Len(label))), <<"a","m","d","g","p","u">>)})
  ELSE LET lines == SplitLines(lspci_out)
       IN Cardinality({i \in 1..Len(lines) : Contains(lines[i], <<"K","e","r","n","e","l"," ","d","r","i","v","e","r"," ","i","n"," ","u","s","e",":"," ","a","m","d","g","p","u">>)})

\* check_amdgpu: "True", "False", or "raises" when run lets an exception through.
check_amdgpu(script, outcome) ==
  IF RunRaises(script, outcome) THEN "raises"
  ELSE IF (IF script = "check_amd_gpu" THEN RunIsNone(outcome) ELSE ~Truthy(outcome)) THEN "False"
  ELSE IF get_amdgpu_gpu_count(script, outcome.text) > 0 THEN "True"
  ELSE "False"

\* str.split(sep, 1)[0] and [1] for a one-character separator that occurs in s.
BeforeFirst(s, sep) == SubSeq(s, 1, FirstIndex({j \in 1..Len(s) : s[j] = sep}) - 1)

AfterFirst(s, sep) == Drop(s, FirstIndex({j \in 1..Len(s) : s[j] = sep}) + 1)

HasChar(s, c) == \E j \in 1..Len(s) : s[j] = c

\* text.split("\n\n").
RECURSIVE SplitBlocks(_)
SplitBlocks(text) ==
  LET k == FirstIndex({j \in 1..Len(text) : OccursAt(text, <<"\n","\n">>, j)})
  IN IF k = 0 THEN <<text>>
     ELSE <<SubSeq(text, 1, k - 1)>> \o SplitBlocks(Drop(text, k + 2))

\* int(s) succeeds: after stripping, an optional sign and decimal digits.
IsInt(s) ==
  LET t == Strip(s)
  IN IsDigit(IF t # << >> /\ Head(t) \in {"+", "-"} THEN Tail(t) ELSE t)

\* The dictionary check_opencl of the linux 80_check_amd_gpu.py builds from the
\* lines of a block that hold a colon: whether it has the key, and the value
\* under it (a later line replaces an earlier one).
ColonLines(lines, key) ==
  {j \in 1..Len(lines) : HasChar(lines[j], ":") /\ Strip(BeforeFirst(lines[j], ":")) = key}

ColonValue(lines, key) ==
  LET hits == ColonLines(lines, key)
  IN Strip(AfterFirst(lines[CHOOSE j \in hits : \A k \in hits : k <= j], ":"))

\* check_opencl of the linux 80_check_amd_gpu.py, lines 163-174: the summary of
\* an AMD GPU block prints int(summary.get("Global memory size", "0")), which
\* raises ValueError when the value is not an integer literal.
OpenclSummaryRaises(clinfo_out) ==
  LET devices == SplitBlocks(clinfo_out)
  IN \E d \in 1..Len(devices) :
       LET dev == devices[d]
           lines == SplitLines(dev)
       IN /\ Contains(dev, <<"D","e","v","i","c","e"," ","T","y","p","e">>) /\ Contains(dev, <<"G","P","U">>)
          /\ ColonLines(lines, <<"D","e","v","i","c","e"," ","V","e","n","d","o","r">>) # {}
          /\ Contains(ColonValue(lines, <<"D","e","v","i","c","e"," ","V","e","n","d","o","r">>), <<"A","M","D">>)
          /\ ColonLines(lines, <<"G","l","o","b","a","l"," ","m","e","m","o","r","y"," ","s","i","z","e">>) # {}
          /\ ~IsInt(ColonValue(lines, <<"G","l","o","b","a","l"," ","m","e","m","o","r","y"," ","s","i","z","e">>))

\* parse_opencl_devices of src/graphictools/.../80_check_amd_gpu.py.
\* A stripped line gives a key and a value when it holds a colon, or else a
\* run of two or more spaces (re.split(r" {2,}", line): parts[0], parts[1]).
DoubleSpaceAt(line) == FirstIndex({j \in 1..Len(line) : OccursAt(line, <<" "," ">>, j)})

HasKeyValue(line) == HasChar(line, ":") \/ DoubleSpaceAt(line) # 0

RECURSIVE SkipSpaces(_)
SkipSpaces(s) == IF s # << >> /\ Head(s) = " " THEN SkipSpaces(Tail(s)) ELSE s

KeyOf(line) ==
  IF HasChar(line, ":") THEN Strip(BeforeFirst(line, ":"))
  ELSE SubSeq(line, 1, DoubleSpaceAt(line) - 1)

ValueOf(line) ==
  IF HasChar(line, ":") THEN Strip(AfterFirst(line, ":"))
  ELSE LET rest == SkipSpaces(Drop(line, DoubleSpaceAt(line)))
           k == DoubleSpaceAt(rest)
       IN IF k = 0 THEN rest ELSE SubSeq(rest, 1, k - 1)

\* The lines at which parse_opencl_devices may start a new device, and the
\* lines of the device that line i belongs to.
OpenclDeviceLines(lines, i) ==
  LET names == {n \in 1..Len(lines) : Contains(lines[n], <<"D","e","v","i","c","e"," ","N","a","m","e">>)}
  IN {j \in 1..Len(lines) :
        /\ HasKeyValue(Strip(lines[j]))
        /\ \A n \in names : (n <= i) = (n <= j)}

\* The value the device of line i holds under key, << >> with FALSE when absent.
OpenclField(lines, i, key) ==
  LET hits == {j \in OpenclDeviceLines(lines, i) : KeyOf(Strip(lines[j])) = key}
  IN IF hits = {} THEN [has |-> FALSE, value |-> << >>]
     ELSE [has |-> TRUE,
           value |-> ValueOf(Strip(lines[CHOOSE j \in hits : \A k \in hits : k <= j]))]

\* amd_devices of parse_opencl_devices is not empty.
parse_opencl_devices(text) ==
  LET lines == SplitLines(text)
  IN \E i \in 1..Len(lines) :
       LET vendor == OpenclField(lines, i, <<"D","e","v","i","c","e"," ","V","e","n","d","o","r">>)
           type == OpenclField(lines, i, <<"D","e","v","i","c","e"," ","T","y","p","e">>)
       IN /\ vendor.has /\ type.has
          /\ Contains(Lower(type.value), <<"g","p","u">>)
          /\ (Contains(Lower(vendor.value), <<"a","m","d">>)
              \/ Contains(Lower(vendor.value), <<"a","d","v","a","n","c","e","d"," ","m","i","c","r","o"," ","d","e","v","i","c","e","s">>))

\* Outcomes of `clinfo`: not installed, failing, printing bytes that are not
\* text, or printing at most one device block.
CLINFO_OUTCOMES ==
  {Outcome("missing", << >>), Outcome("failed", << >>), Outcome("undecodable", << >>)}
    \cup {Outcome("text", t) : t \in ClinfoTexts(1)}

\* check_opencl: "True", "False" or "raises".
check_opencl(script, outcome) ==
  IF outcome.status = "missing" THEN "False"
  ELSE IF RunRaises(script, outcome) THEN "raises"
  ELSE IF script = "80_check_amd_gpu"
  THEN (IF Truthy(outcome) /\ parse_opencl_devices(outcome.text) THEN "True" ELSE "False")
  ELSE IF RunIsNone(outcome) THEN "False"
  ELSE IF script = "linux_80_check_amd_gpu" /\ OpenclSummaryRaises(outcome.text) THEN "raises"
  ELSE IF count_amd_gpus_clinfo(script, outcome.text) > 0 THEN "True"
  ELSE "False"

\* Outcomes of `vulkaninfo --summary` and of `vulkaninfo`.
VULKAN_SUMMARY_OUTCOMES == {
  Outcome("failed", << >>),
  Outcome("text", <<"G","P","U"," ","i","d"," ",":"," ","0"," ","A","M","D"," ","R","a","d","e","o","n","\n","D","r","i","v","e","r"," ","N","a","m","e"," ",":"," ","r","a","d","v","\n">>),
  Outcome("text", <<"G","P","U"," ","i","d"," ",":"," ","0"," ","(","I","n","t","e","l"," ","A","r","c",")","\n","D","r","i","v","e","r"," ","N","a","m","e"," "," "," ","a","n","v","\n">>) }

VULKANINFO_OUTCOMES == {
  Outcome("missing", << >>),
  Outcome("failed", << >>),
  Outcome("undecodable", << >>),
  Outcome("text", <<"V","k","P","h","y","s","i","c","a","l","D","e","v","i","c","e","P","r","o","p","e","r","t","i","e","s",":","\n"," "," ","d","e","v","i","c","e","N","a","m","e"," ","="," ","A","M","D"," ","R","a","d","e","o","n","\n"," "," ","m","a","x","I","m","a","g","e","D","i","m","e","n","s","i","o","n","2","D"," ","="," ","1","6","3","8","4","\n">>),
  Outcome("text", <<"V","k","P","h","y","s","i","c","a","l","D","e","v","i","c","e","P","r","o","p","e","r","t","i","e","s",":","\n"," "," ","d","e","v","i","c","e","N","a","m","e"," ","="," ","I","n","t","e","l"," ","A","r","c","\n"," "," ","m","a","x","I","m","a","g","e","D","i","m","e","n","s","i","o","n","2","D"," ","="," ","1","6","3","8","4","\n">>),
  Outcome("text", <<"V","k","P","h","y","s","i","c","a","l","D","e","v","i","c","e","P","r","o","p","e","r","t","i","e","s",":","\n"," "," ","d","e","v","i","c","e","N","a","m","e",":"," ","A","M","D"," ","R","a","d","e","o","n","\n">>) }

\* re.search(first .* second, text) with "." not matching a line break: some
\* line holds first and, after it, second.
SearchInLine(text, first, second) ==
  LET lines == SplitLines(text)
  IN \E n \in 1..Len(lines), i \in 1..Len(text) :
       /\ i <= Len(lines[n])
       /\ OccursAt(lines[n], first, i)
       /\ Contains(Drop(lines[n], i + Len(first)), second)

\* check_vulkan of the linux 80_check_amd_gpu.py, lines 224-228: the first
\* line of the summary holding "Driver Name" is split at its colon; without a
\* colon split(":", 1)[1] raises IndexError.
DriverNameRaises(summary) ==
  LET lines == SplitLines(summary)
      k == FirstIndex({j \in 1..Len(lines) : Contains(lines[j], <<"D","r","i","v","e","r"," ","N","a","m","e">>)})
  IN k # 0 /\ ~HasChar(lines[k], ":")

\* The loop of detect_amd_gpu_vulkan_full from line i on; current tells whether
\* a device is open. The result is the number of devices, or -1 when a line
\* that is read has no "=" (split("=", 1)[1] raises IndexError).
RECURSIVE VulkanFullFrom(_, _, _, _)
VulkanFullFrom(lines, i, current, count) ==
  IF i > Len(lines) THEN count
  ELSE LET line == Strip(lines[i])
           opens == StartsWith(line, <<"d","e","v","i","c","e","N","a","m","e">>) /\ Contains(line, <<"A","M","D">>)
           reads == current /\ \E key \in {<<"d","r","i","v","e","r","V","e","r","s","i","o","n">>, <<"d","e","v","i","c","e","U","U","I","D">>, <<"d","e","v","i","c","e","T","y","p","e">>, <<"a","p","i","V","e","r","s","i","o","n">>, <<"m","a","x","I","m","a","g","e","D","i","m","e","n","s","i","o","n","2","D">>} : StartsWith(line, key)
       IN IF ~opens /\ ~reads THEN VulkanFullFrom(lines, i + 1, current, count)
          ELSE IF ~HasChar(line, "=") THEN -1
          ELSE IF opens THEN VulkanFullFrom(lines, i + 1, TRUE, count)
          ELSE IF StartsWith(line, <<"m","a","x","I","m","a","g","e","D","i","m","e","n","s","i","o","n","2","D">>)
          THEN VulkanFullFrom(lines, i + 1, FALSE, count + 1)
          ELSE VulkanFullFrom(lines, i + 1, TRUE, count)

detect_amd_gpu_vulkan_full(outcome) ==
  IF ~Truthy(outcome) THEN 0
  ELSE VulkanFullFrom(SplitLines(outcome.text), 1, FALSE, 0)

\* parse_vulkan_devices of src/graphictools/.../80_check_amd_gpu.py finds a
\* device whose deviceName holds "amd": devices start at the lines holding
\* "VkPhysicalDeviceProperties:", and a device's deviceName is the value of
\* its last line "deviceName = ...".
parse_vulkan_devices(text) ==
  LET lines == SplitLines(text)
      starts == {i \in 1..Len(lines) : Contains(lines[i], <<"V","k","P","h","y","s","i","c","a","l","D","e","v","i","c","e","P","r","o","p","e","r","t","i","e","s",":">>)}
      names(i) == {j \in 1..Len(lines) :
                     /\ HasChar(lines[j], "=")
                     /\ Strip(BeforeFirst(Strip(lines[j]), "=")) = <<"d","e","v","i","c","e","N","a","m","e">>
                     /\ \A n \in starts : (n <= i) = (n <= j)}
  IN \E i \in 1..Len(lines) :
       /\ names(i) # {}
       /\ LET last == CHOOSE j \in names(i) : \A k \in names(i) : k <= j
          IN Contains(Lower(Strip(AfterFirst(Strip(lines[last]), "="))), <<"a","m","d">>)

\* check_vulkan: "True", "False" or "raises".
check_vulkan(script, summary, full) ==
  IF full.status = "missing" THEN "False"
  ELSE IF script = "80_check_amd_gpu"
  THEN (IF Truthy(full) /\ parse_vulkan_devices(full.text) THEN "True" ELSE "False")
  ELSE IF RunRaises(script, summary) THEN "raises"
  ELSE IF script = "check_amd_gpu"
  THEN (IF Truthy(summary) /\ SearchInLine(summary.text, <<"G","P","U"," ","i","d"," ">>, <<" ","A","M","D">>) THEN "True"
        ELSE IF RunRaises(script, full) THEN "raises"
        ELSE IF Truthy(full) /\ SearchInLine(Lower(full.text), <<"d","e","v","i","c","e","n","a","m","e">>, <<"a","m","d">>) THEN "True"
        ELSE "False")
  ELSE IF Truthy(summary) /\ DriverNameRaises(summary.text) THEN "raises"
  ELSE IF RunRaises(script, full) THEN "raises"
  ELSE IF detect_amd_gpu_vulkan_full(full) = -1 THEN "raises"
  ELSE IF detect_amd_gpu_vulkan_full(full) > 0 THEN "True"
  ELSE "False"

\* ------------------------------------------------------------------------
\* The run
\* ------------------------------------------------------------------------

TOOLS == {"smartctl", "lsblk", "lspci", "nvme"}

\* The tools check_dependencies insists on.
RequiredTools(v) == IF v = "v2" THEN {"smartctl", "nvme", "lspci"} ELSE TOOLS

Init ==
  /\ variant \in VARIANTS
  /\ pc = "check_root"
  /\ lspci \in [ADDRESSES -> LSPCI_OUTCOMES]
  /\ pending = {}
  /\ scanned = << >>
  /\ CONTROLLER_DISKS = << >>
  /\ output = << >>
  /\ exit_status = -1
  /\ passed = {}
  /\ gpu = GPU_IDLE

\* check_root of v2, the first lines of main of v1: exit(1) unless euid is 0.
CheckRoot ==
  /\ pc = "check_root"
  /\ \E euid \in {0, 1000} :
       IF euid # 0
       THEN pc' = "exited" /\ exit_status' = 1 /\ UNCHANGED passed
       ELSE /\ pc' = (IF variant = "v1" THEN "install" ELSE "deps")
            /\ passed' = passed \cup {"root"}
            /\ UNCHANGED exit_status
  /\ UNCHANGED <<variant, lspci, pending, scanned, CONTROLLER_DISKS, output, gpu>>

\* install_if_missing of v1: sys.exit(1) when a package manager is found, a
\* tool is missing and its installation fails; otherwise on to the checks.
InstallIfMissing ==
  /\ pc = "install"
  /\ \E pkg_mgr \in BOOLEAN, missing \in BOOLEAN, install_ok \in BOOLEAN :
       IF pkg_mgr /\ missing /\ ~install_ok
       THEN pc' = "exited" /\ exit_status' = 1
       ELSE pc' = "deps" /\ UNCHANGED exit_status
  /\ UNCHANGED <<variant, lspci, pending, scanned, CONTROLLER_DISKS, output, passed, gpu>>

\* A dependency check that lets the run go on whatever tools are present.
CheckDependencies_skipped ==
  /\ pc = "deps"
  /\ pc' = "list_sata"
  /\ UNCHANGED <<variant, lspci, pending, scanned, CONTROLLER_DISKS, output, exit_status, passed, gpu>>

\* check_dependencies: exit(1) at the first required tool shutil.which misses.
CheckDependencies ==
  /\ pc = "deps"
  /\ \E present \in SUBSET TOOLS :
       IF RequiredTools(variant) \subseteq present
       THEN pc' = "list_sata" /\ passed' = passed \cup {"dependencies"} /\ UNCHANGED exit_status
       ELSE pc' = "exited" /\ exit_status' = 1 /\ UNCHANGED passed
  /\ UNCHANGED <<variant, lspci, pending, scanned, CONTROLLER_DISKS, output, gpu>>

\* process_sata_disks reads os.listdir("/sys/block"); the entries that do not
\* start with "sd" are passed over.
ListSata ==
  /\ pc = "list_sata"
  /\ \E listing \in SUBSET SYS_BLOCK_POOL :
       /\ pending' = {dev \in listing : IsSataEntry(dev)}
       /\ Cardinality(pending') <= MaxDevs
  /\ pc' = "sata"
  /\ UNCHANGED <<variant, lspci, scanned, CONTROLLER_DISKS, output, exit_status, passed, gpu>>

\* The next entry of the loop: v1 sorts the listing, v2 takes os.listdir's order.
NextSata(dev) ==
  /\ dev \in pending
  /\ variant = "v1" => \A other \in pending \ {dev} : StrLess(dev, other)

\* One iteration of the loop of process_sata_disks.  run() catches
\* CalledProcessError only: when check_output(..., text=True) cannot decode a
\* command's output, UnicodeDecodeError leaves the loop, the function and the
\* script, and the interpreter exits with status 1 after the traceback.
ProcessSata ==
  /\ pc = "sata"
  /\ \E dev \in pending, decodable \in BOOLEAN :
       LET controller == RESOLVED[lspci][Disk(dev).real_path]
       IN /\ NextSata(dev)
          /\ CONTROLLER_DISKS' =
               IF decodable
               THEN Append_entry(CONTROLLER_DISKS, controller,
                                 SataEntry(variant, dev, Disk(dev).outputs))
               ELSE CONTROLLER_DISKS
          /\ scanned' = Append(scanned, [device |-> <<"/","d","e","v","/">> \o dev, name |-> dev,
                                         controller |-> controller, skipped |-> ~decodable])
          /\ pending' = pending \ {dev}
          /\ pc' = (IF decodable THEN pc ELSE "crashed")
          /\ exit_status' = (IF decodable THEN exit_status ELSE 1)
  /\ UNCHANGED <<variant, lspci, output, passed, gpu>>

\* process_sata_disks returns; process_nvme_disks reads os.listdir("/dev") and
\* passes over the entries that are not nvme<digits>n1.
ListNvme ==
  /\ pc = "sata" /\ pending = {}
  /\ \E listing \in SUBSET DEV_POOL :
       /\ pending' = {entry \in listing : IsNvmeEntry(entry)}
       /\ Len(scanned) + Cardinality(pending') <= MaxDevs
  /\ pc' = "nvme"
  /\ UNCHANGED <<variant, lspci, scanned, CONTROLLER_DISKS, output, exit_status, passed, gpu>>

\* One iteration of the loop of process_nvme_disks: the controller is resolved,
\* then an empty id-ctrl output ends the iteration before anything is appended.
\* An output of nvme that cannot be decoded ends the script as in ProcessSata.
ProcessNvme ==
  /\ pc = "nvme"
  /\ \E entry \in pending, decodable \in BOOLEAN :
       LET controller == RESOLVED[lspci][Disk(entry).real_path]
           skip == ~decodable \/ NVME_SKIPPED[variant][Disk(entry).outputs]
       IN /\ CONTROLLER_DISKS' =
               IF skip THEN CONTROLLER_DISKS
               ELSE Append_entry(CONTROLLER_DISKS, controller,
                                 NvmeEntry(variant, entry, Disk(entry).outputs))
          /\ scanned' = Append(scanned, [device |-> <<"/","d","e","v","/">> \o entry, name |-> entry,
                                         controller |-> controller, skipped |-> skip])
          /\ pending' = pending \ {entry}
          /\ pc' = (IF decodable THEN pc ELSE "crashed")
          /\ exit_status' = (IF decodable THEN exit_status ELSE 1)
  /\ UNCHANGED <<variant, lspci, output, passed, gpu>>

\* print_output, after which the script ends: the interpreter exits with 0.
PrintOutput ==
  /\ pc = "nvme" /\ pending = {}
  /\ output' = print_output(variant, CONTROLLER_DISKS)
  /\ pc' = "done"
  /\ exit_status' = 0
  /\ UNCHANGED <<variant, lspci, pending, scanned, CONTROLLER_DISKS, passed, gpu>>

Next ==
  \/ CheckRoot
  \/ InstallIfMissing
  \/ CheckDependencies
  \/ ListSata
  \/ ProcessSata
  \/ ListNvme
  \/ ProcessNvme
  \/ PrintOutput

Spec == Init /\ [][Next]_vars

\* ------------------------------------------------------------------------
\* The aggregator alone, over arbitrary controller keys
\* ------------------------------------------------------------------------

\* Controller keys print_output may be handed: resolved ones (one of them on
\* a bus whose number begins with a hexadecimal letter), the sentinel,
\* and strings whose first token is no bus address (upper-case digits, no
\* digits at all, a string that sorts before every digit).
KEY_POOL ==
  {<<"0","1",":","0","0",".","0"," ","A","H","C","I"," ","C","o","n","t","r","o","l","l","e","r">>, <<"0","2",":","0","0",".","0"," ","A","H","C","I"," ","C","o","n","t","r","o","l","l","e","r">>, <<"0","a",":","0","0",".","1"," ","N","V","M","e"," ","S","S","D">>,
   <<"1","0",":","1","f",".","0"," ","R","A","I","D">>, <<"0","0",":","1","f",".","2"," ","S","A","T","A">>, <<"a","0",":","0","0",".","0"," ","R","A","I","D">>, UNKNOWN_CONTROLLER,
   <<"0","A",":","0","0",".","0"," ","N","V","M","e"," ","S","S","D">>, <<"-">>, <<"z","z",":","z","z",".","z">>}

\* The scans are over and the map is empty.
InitSort ==
  /\ variant \in VARIANTS
  /\ pc = "nvme"
  /\ lspci = [a \in ADDRESSES |-> "empty"]
  /\ pending = {}
  /\ scanned = << >>
  /\ CONTROLLER_DISKS = << >>
  /\ output = << >>
  /\ exit_status = -1
  /\ passed = {"root", "dependencies"}
  /\ gpu = GPU_IDLE

\* CONTROLLER_DISKS[key].append(line) for the next sd* disk, under any key.
InsertGroup ==
  /\ pc = "nvme"
  /\ Len(scanned) < MaxGroups
  /\ \E key \in KEY_POOL, dev \in {d.name : d \in SATA_DISKS} :
       /\ \A i \in 1..Len(scanned) : scanned[i].name # dev /\ StrLess(scanned[i].name, dev)
       /\ \A other \in {d.name : d \in SATA_DISKS} :
            StrLess(other, dev) => \E i \in 1..Len(scanned) : scanned[i].name = other
       /\ CONTROLLER_DISKS' =
            Append_entry(CONTROLLER_DISKS, key, SataEntry(variant, dev, Disk(dev).outputs))
       /\ scanned' = Append(scanned, [device |-> <<"/","d","e","v","/">> \o dev, name |-> dev,
                                      controller |-> key, skipped |-> FALSE])
  /\ UNCHANGED <<variant, pc, lspci, pending, output, exit_status, passed, gpu>>

NextSort == InsertGroup \/ PrintOutput

SortSpec == InitSort /\ [][NextSort]_vars

\* ---------------------------------------------------------------------------
\* count_amd_gpus_clinfo applied to every clinfo output of CLINFO_TEXTS.

DISKS_IDLE ==
  /\ variant = "v2"
  /\ pc = "idle"
  /\ lspci = [a \in ADDRESSES |-> "empty"]
  /\ pending = {}
  /\ scanned = << >>
  /\ CONTROLLER_DISKS = << >>
  /\ output = << >>
  /\ exit_status = -1
  /\ passed = {}

InitClinfo ==
  /\ DISKS_IDLE
  /\ \E script \in COUNTING_SCRIPTS, text \in CLINFO_TEXTS :
       gpu = [GPU_IDLE EXCEPT !.script = script, !.pc = "count",
                              !.clinfo = Outcome("text", text)]

CountAmdGpus ==
  /\ gpu.pc = "count"
  /\ gpu' = [gpu EXCEPT !.count = count_amd_gpus_clinfo(gpu.script, gpu.clinfo.text),
                        !.pc = "counted"]
  /\ UNCHANGED <<variant, pc, lspci, pending, scanned, CONTROLLER_DISKS, output, exit_status, passed>>

ClinfoSpec == InitClinfo /\ [][CountAmdGpus]_vars

\* ---------------------------------------------------------------------------
\* main of the three GPU check scripts.

InitGpu ==
  /\ DISKS_IDLE
  /\ \E script \in GPU_SCRIPTS, l \in LSPCI_K_OUTCOMES, c \in CLINFO_OUTCOMES,
        s \in VULKAN_SUMMARY_OUTCOMES, v \in VULKANINFO_OUTCOMES :
       gpu = [GPU_IDLE EXCEPT !.script = script, !.pc = "amdgpu", !.lspci_k = l,
                              !.clinfo = c, !.vulkan_summary = s, !.vulkaninfo = v]

\* A check was called and gave result: its return value is kept and main goes
\* on to next, or the exception it raised ends the process with a traceback
\* and status 1.
AfterCheck(check, result, next) ==
  IF result = "raises"
  THEN [gpu EXCEPT !.executed = Append(@, check), !.pc = "exited",
                   !.summary = "traceback", !.exit_status = 1]
  ELSE [gpu EXCEPT !.executed = Append(@, check), !.returned = Append(@, result),
                   !.pc = next]

CheckAmdgpu ==
  /\ gpu.pc = "amdgpu"
  /\ gpu' = AfterCheck("amdgpu", check_amdgpu(gpu.script, gpu.lspci_k), "opencl")
  /\ UNCHANGED <<variant, pc, lspci, pending, scanned, CONTROLLER_DISKS, output, exit_status, passed>>

CheckOpencl ==
  /\ gpu.pc = "opencl"
  /\ gpu' = AfterCheck("opencl", check_opencl(gpu.script, gpu.clinfo), "vulkan")
  /\ UNCHANGED <<variant, pc, lspci, pending, scanned, CONTROLLER_DISKS, output, exit_status, passed>>

CheckVulkan ==
  /\ gpu.pc = "vulkan"
  /\ gpu' = AfterCheck("vulkan", check_vulkan(gpu.script, gpu.vulkan_summary, gpu.vulkaninfo), "summary")
  /\ UNCHANGED <<variant, pc, lspci, pending, scanned, CONTROLLER_DISKS, output, exit_status, passed>>

\* The value main tests for its summary and exit status: in check_amd_gpu.py
\* and the linux 80_check_amd_gpu.py all((check_amdgpu(), check_opencl(),
\* check_vulkan())); in src/graphictools/.../80_check_amd_gpu.py
\* `opencl_ok and vulkan_ok`, the result of check_amdgpu() being dropped.
main_success(script, returned) ==
  IF script = "80_check_amd_gpu"
  THEN returned[2] = "True" /\ returned[3] = "True"
  ELSE \A i \in 1..3 : returned[i] = "True"

\* The summary line and sys.exit of main.
Summarize ==
  /\ gpu.pc = "summary"
  /\ gpu' = [gpu EXCEPT !.pc = "exited",
                        !.summary = IF main_success(gpu.script, gpu.returned)
                                    THEN "All checks passed" ELSE "At least one check failed",
                        !.exit_status = IF main_success(gpu.script, gpu.returned) THEN 0 ELSE 1]
  /\ UNCHANGED <<variant, pc, lspci, pending, scanned, CONTROLLER_DISKS, output, exit_status, passed>>

NextGpu == CheckAmdgpu \/ CheckOpencl \/ CheckVulkan \/ Summarize

GpuSpec == InitGpu /\ [][NextGpu]_vars

\* ------------------------------------------------------------------------
\* Properties
\* ------------------------------------------------------------------------

\* The scanned devices that were appended to the map, in discovery order.
Inserted == SelectSeq(scanned, LAMBDA d : ~d.skipped)

\* The devices discovered with that controller key, in discovery order.
DiscoveredUnder(key) ==
  LET ds == SelectSeq(Inserted, LAMBDA d : d.controller = key)
  IN [i \in 1..Len(ds) |-> ds[i].device]

\* The devices of a printed group, in printed order.
GroupDevices(group) == [i \in 1..Len(group.devs) |-> group.devs[i].device]

\* Every report line of the map.
Entries ==
  UNION {{CONTROLLER_DISKS[g].devs[i] : i \in 1..Len(CONTROLLER_DISKS[g].devs)} :
           g \in 1..Len(CONTROLLER_DISKS)}

KEY_AHCI == <<"0","1",":","0","0",".","0"," ","A","H","C","I"," ","C","o","n","t","r","o","l","l","e","r">>

\* The key's first token is a bus address for pci_sort_key.
Parsable(key) == AddrAt(FirstToken(key), 1)

\* The bus addresses of each path of the pool, in path order.
CANDIDATES == [real_path \in PATHS |-> FindAddresses(real_path, 1)]

\* The PCI enumeration describes the address as a storage controller.
DescribesStorage(addr) == IsStorageLine(LspciLine(lspci, addr))

C2_EveryDeviceReported ==
  pc = "done" =>
    \A i \in 1..Len(scanned) :
      \E g \in 1..Len(output) :
        \E e \in 1..Len(output[g].devs) : output[g].devs[e].device = scanned[i].device

\* C3: v2 prints every group whose key has no parsable bus address after every
\* group whose key has one, and prints every group.
C3_UnparsableKeysLast ==
  (pc = "done" /\ variant = "v2") =>
    /\ Len(output) = Len(CONTROLLER_DISKS)
    /\ \A i, j \in 1..Len(output) :
         (~Parsable(output[i].key) /\ Parsable(output[j].key)) => j < i

\* A key without an address that was inserted first, and that a string sort
\* would put first, is printed last by v2, after a key with an address.
C3_Witness ==
  /\ pc = "done" /\ variant = "v2"
  /\ Len(CONTROLLER_DISKS) >= 2
  /\ CONTROLLER_DISKS[1].key = <<"-">>
  /\ Parsable(CONTROLLER_DISKS[2].key)
  /\ output[Len(output)].key = <<"-">>

\* The address bb:dd.f read as the one hexadecimal number bbddf.
AddrValue(addr) == HexInt(<<addr[1], addr[2], addr[4], addr[5], addr[7]>>)

\* C4: on keys with a parsable address, pci_sort_key orders as the numeric
\* (bus, device, function) triple does, and v2 prints those groups in
\* ascending order of the triple.
C4_SortKeyFollowsTriple ==
  /\ \A i, j \in 1..Len(CONTROLLER_DISKS) :
       LET a == FirstToken(CONTROLLER_DISKS[i].key)
           b == FirstToken(CONTROLLER_DISKS[j].key)
       IN (AddrAt(a, 1) /\ AddrAt(b, 1)) =>
            (TupleLess(pci_sort_key(a), pci_sort_key(b)) <=> AddrValue(a) < AddrValue(b))
  /\ (pc = "done" /\ variant = "v2") =>
       \A i, j \in 1..Len(output) :
         (i < j /\ Parsable(output[i].key) /\ Parsable(output[j].key)) =>
           AddrValue(FirstToken(output[i].key)) < AddrValue(FirstToken(output[j].key))

\* "0a:00.1", "02:00.0" and "01:00.0", inserted in that order, are printed
\* in the opposite one.
C4_Witness ==
  /\ pc = "done" /\ variant = "v2"
  /\ Keys(CONTROLLER_DISKS) = <<<<"0","a",":","0","0",".","1"," ","N","V","M","e"," ","S","S","D">>, <<"0","2",":","0","0",".","0"," ","A","H","C","I"," ","C","o","n","t","r","o","l","l","e","r">>, KEY_AHCI>>
  /\ Keys(output) = <<KEY_AHCI, <<"0","2",":","0","0",".","0"," ","A","H","C","I"," ","C","o","n","t","r","o","l","l","e","r">>, <<"0","a",":","0","0",".","1"," ","N","V","M","e"," ","S","S","D">>>>

\* C5: a resolved controller key is the key of the address nearest to the
\* device (last in the path) whose lspci line names a storage class: that
\* address is described as storage, and no address after it in the path is.
C5_NearestMatchWins ==
  \A i \in 1..Len(scanned) :
    LET addrs == CANDIDATES[Disk(scanned[i].name).real_path]
    IN scanned[i].controller # UNKNOWN_CONTROLLER =>
         \E k \in 1..Len(addrs) :
           /\ DescribesStorage(addrs[k])
           /\ scanned[i].controller = ControllerKey(addrs[k], LspciLine(lspci, addrs[k]))
           /\ \A m \in (k + 1)..Len(addrs) : ~DescribesStorage(addrs[m])

\* A device behind two addresses that are both described as storage
\* controllers is filed under the nearer one.
C5_Witness ==
  \E i \in 1..Len(scanned) :
    /\ Disk(scanned[i].name).real_path = PATH_AHCI
    /\ DescribesStorage(ADDR_ROOT) /\ DescribesStorage(ADDR_AHCI)
    /\ scanned[i].controller = KEY_AHCI

\* C6: a device's key is the sentinel exactly when no address of its path is
\* described as a storage controller, and a device with the sentinel key is
\* printed in the sentinel group.
C6_SentinelExactlyWhenNoMatch ==
  \A i \in 1..Len(scanned) :
    LET addrs == CANDIDATES[Disk(scanned[i].name).real_path]
    IN /\ scanned[i].controller = UNKNOWN_CONTROLLER
            <=> \A k \in 1..Len(addrs) : ~DescribesStorage(addrs[k])
       /\ (pc = "done" /\ scanned[i].controller = UNKNOWN_CONTROLLER) =>
            \E g \in 1..Len(output) :
              /\ output[g].key = UNKNOWN_CONTROLLER
              /\ \E e \in 1..Len(output[g].devs) : output[g].devs[e].device = scanned[i].device

\* The tool outputs behind a report line.
OutputsOf(entry) ==
  LET disk == Disk(Drop(entry.device, 6))
  IN IF entry.kind = "sata" THEN SATA_OUTPUTS[disk.outputs] ELSE NVME_OUTPUTS[disk.outputs]

\* The tools gave no health signal: no PASSED, OK or FAILED from smartctl -H
\* for an sd* disk, no critical_warning counter from nvme for an NVMe node.
NoHealthSignal(entry) ==
  IF entry.kind = "sata"
  THEN \A mark \in {<<"P","A","S","S","E","D">>, <<"O","K">>, <<"F","A","I","L","E","D">>} : ~Contains(Upper(OutputsOf(entry).health), mark)
  ELSE /\ ~Contains(OutputsOf(entry).idctrl, <<"c","r","i","t","i","c","a","l","_","w","a","r","n","i","n","g">>)
       /\ ~Contains(OutputsOf(entry).smart_log, <<"c","r","i","t","i","c","a","l","_","w","a","r","n","i","n","g">>)

\* C7: a device without a health signal is reported with health Unknown.
C7_NoSignalIsUnknown ==
  \A entry \in Entries : NoHealthSignal(entry) => entry.health = HEALTH_UNKNOWN

\* The raw value of the temperature attribute: the last field of the first
\* smartctl -A line naming Temperature, or for v2's NVMe nodes the first number
\* of the smart-log line starting with "temperature"; << >> when there is none.
RawTemperature(entry) ==
  LET text == IF variant = "v2" /\ entry.kind = "nvme"
              THEN OutputsOf(entry).smart_log ELSE OutputsOf(entry).attrs
      lines == SplitLines(text)
      i == FirstIndex({j \in 1..Len(lines) : Contains(Lower(lines[j]), <<"t","e","m","p","e","r","a","t","u","r","e">>)})
  IN IF i = 0 THEN << >>
     ELSE IF variant = "v2" /\ entry.kind = "nvme" THEN FirstDigits(lines[i])
     ELSE Fields(lines[i])[Len(Fields(lines[i]))]

\* C8: the reported temperature is the raw reading t when 0 < t < 150, and
\* none (N/A) otherwise.
C8_TemperatureInRange ==
  \A entry \in Entries :
    LET raw == RawTemperature(entry)
    IN IF IsDigit(raw) /\ 0 < DecInt(raw) /\ DecInt(raw) < 150
       THEN entry.temperature = raw
       ELSE entry.temperature = NO_TEMPERATURE

\* C9: v1 flags an sd* disk's link as degraded exactly when both tiers are
\* known and the negotiated one is below the capable one.
C9_DegradedOnlyWithBothTiers ==
  \A entry \in Entries :
    (variant = "v1" /\ entry.kind = "sata") =>
      (entry.degraded <=> /\ entry.iface # <<"S","A","T","A","?">>
                          /\ entry.link # <<"S","A","T","A","?">>
                          /\ speed_order(entry.link) < speed_order(entry.iface))

\* C10: the run ends with exit status 0 only if no discovered device was
\* skipped and none had its tools fail.
C10_ExitZeroOnlyIfAllClean ==
  exit_status = 0 =>
    \A i \in 1..Len(scanned) :
      ~scanned[i].skipped /\ Disk(scanned[i].name).outputs # "fails"


\* The places (group, position) of the map that hold a line of the device.
PlacesOf(device) ==
  {<<g, e>> \in (1..Len(CONTROLLER_DISKS)) \X (1..MaxDevs) :
     /\ e <= Len(CONTROLLER_DISKS[g].devs)
     /\ CONTROLLER_DISKS[g].devs[e].device = device}

\* The group the map holds the inserted device in.
GroupOf(device) == (CHOOSE place \in PlacesOf(device) : TRUE)[1]

\* The number of lines the map holds.
RECURSIVE LinesIn(_)
LinesIn(disks) == IF disks = << >> THEN 0 ELSE Len(Head(disks).devs) + LinesIn(Tail(disks))

\* C11: every inserted device has exactly one line in exactly one group, the
\* map holds no other line, two devices share a group exactly when their
\* resolved keys are identical, and resolved keys are identical exactly when
\* their addresses are: an equal description never merges two addresses.
C11_GroupMembership ==
  /\ LinesIn(CONTROLLER_DISKS) = Len(Inserted)
  /\ \A i \in 1..Len(Inserted) :
       /\ Cardinality(PlacesOf(Inserted[i].device)) = 1
       /\ CONTROLLER_DISKS[GroupOf(Inserted[i].device)].key = Inserted[i].controller
  /\ \A i, j \in 1..Len(Inserted) :
       /\ GroupOf(Inserted[i].device) = GroupOf(Inserted[j].device)
            <=> Inserted[i].controller = Inserted[j].controller
       /\ (Inserted[i].controller # UNKNOWN_CONTROLLER /\ Inserted[j].controller # UNKNOWN_CONTROLLER)
            => (Inserted[i].controller = Inserted[j].controller
                  <=> FirstToken(Inserted[i].controller) = FirstToken(Inserted[j].controller))

\* Two devices behind different addresses with the same description
\* "AHCI Controller", in two groups, next to two devices sharing a group.
C11_Witness ==
  \E i, j, k \in 1..Len(Inserted) :
    /\ Inserted[i].controller = KEY_AHCI
    /\ Inserted[j].controller = <<"0","0",":","1","c",".","0"," ","A","H","C","I"," ","C","o","n","t","r","o","l","l","e","r">>
    /\ GroupOf(Inserted[i].device) # GroupOf(Inserted[j].device)
    /\ k # i /\ GroupOf(Inserted[k].device) = GroupOf(Inserted[i].device)

\* C12: in every report line each of vendor, model, serial and firmware is a
\* non-empty value (a resolved one or the "unknown" sentinel), never empty.
C12_NoEmptyField ==
  \A entry \in Entries :
    /\ entry.vendor # << >>
    /\ entry.model # << >>
    /\ entry.serial # << >>
    /\ entry.firmware # << >>

C14_WithinGroupOrder ==
  /\ \A g \in 1..Len(CONTROLLER_DISKS) :
       GroupDevices(CONTROLLER_DISKS[g]) = DiscoveredUnder(CONTROLLER_DISKS[g].key)
  /\ pc = "done" =>
       /\ Len(output) = Len(CONTROLLER_DISKS)
       /\ \A g \in 1..Len(output) :
            /\ GroupDevices(output[g]) = DiscoveredUnder(output[g].key)
            /\ \A a, b \in 1..Len(output[g].devs) :
                 a < b =>
                   /\ ~(output[g].devs[a].kind = "nvme" /\ output[g].devs[b].kind = "sata")
                   /\ (/\ variant = "v1"
                       /\ output[g].devs[a].kind = "sata"
                       /\ output[g].devs[b].kind = "sata")
                        => StrLess(output[g].devs[a].device, output[g].devs[b].device)

\* A printed group of an sd* disk followed by an NVMe node, printed after a
\* group that was inserted later than it.
C14_Witness ==
  /\ pc = "done"
  /\ \E g \in 2..Len(output) :
       /\ Len(output[g].devs) = 2
       /\ output[g].devs[1].kind = "sata"
       /\ output[g].devs[2].kind = "nvme"
       /\ output[g].key = CONTROLLER_DISKS[1].key

\* C15: once the privilege and dependency checks have passed, no error of a
\* device ends the run: it is never aborted before the end of print_output,
\* whatever the tools print or fail to print.
C15_RunCompletes == pc # "crashed"

\* The report line the device's own tool outputs determine.
OwnEntry(d) ==
  IF IsSataEntry(d.name)
  THEN [SATA_FIELDS[variant][Disk(d.name).outputs] EXCEPT !.device = d.device]
  ELSE [NVME_FIELDS[variant][Disk(d.name).outputs] EXCEPT !.device = d.device]

\* C16: the line of a device and its group key are determined by its own
\* path and tool outputs alone.  Every inserted device's line is the line its
\* own outputs determine, under the key its own path resolves to, whichever
\* other devices were scanned; and when the run has ended, every device that
\* was listed and whose own tools do not fail it has that line, whatever the
\* tools of the other devices printed.
C16_PerDeviceIndependence ==
  /\ \A i \in 1..Len(Inserted) :
       LET d == Inserted[i]
           key == RESOLVED[lspci][Disk(d.name).real_path]
       IN \A place \in PlacesOf(d.device) :
            /\ CONTROLLER_DISKS[place[1]].key = key
            /\ CONTROLLER_DISKS[place[1]].devs[place[2]] = OwnEntry(d)
  /\ pc \in {"done", "crashed"} =>
       \A name \in pending :
         LET d == [device |-> <<"/","d","e","v","/">> \o name, name |-> name]
         IN \E g \in 1..Len(CONTROLLER_DISKS) :
              /\ CONTROLLER_DISKS[g].key = RESOLVED[lspci][Disk(name).real_path]
              /\ \E e \in 1..Len(CONTROLLER_DISKS[g].devs) :
                   CONTROLLER_DISKS[g].devs[e] = OwnEntry(d)

\* C18: a device is scanned, the map is filled and a group is printed only
\* after the root check and the dependency check have both passed; a run that
\* a check ended has exit status 1, an empty map and nothing scanned or printed.
C18_PreflightGating ==
  /\ (\/ pc \in {"list_sata", "sata", "nvme", "done", "crashed"}
      \/ pending # {} \/ scanned # << >> \/ CONTROLLER_DISKS # << >> \/ output # << >>)
       => passed = {"root", "dependencies"}
  /\ pc = "exited" =>
       /\ exit_status = 1
       /\ passed # {"root", "dependencies"}
       /\ pending = {} /\ scanned = << >> /\ CONTROLLER_DISKS = << >> /\ output = << >>
  /\ passed # {"root", "dependencies"} => pc \in {"check_root", "install", "deps", "exited"}

\* A run of v1 that the dependency check ended after the root check passed,
\* and a run that printed a group.
C18_Witness ==
  \/ pc = "exited" /\ variant = "v1" /\ passed = {"root"} /\ exit_status = 1
  \/ pc = "done" /\ output # << >>

\* The lines of a clinfo output at which a device block starts.
BlockStarts(lines) == {i \in 1..Len(lines) : StartsWith(LStrip(lines[i]), <<"D","e","v","i","c","e"," ","N","a","m","e">>)}

\* The lines of the device block that starts at line i.
BlockLines(lines, i) ==
  {j \in i..Len(lines) : \A k \in BlockStarts(lines) : k <= i \/ k > j}

\* The block starting at line i has a "Device Vendor" line naming AMD and a
\* "Device Type" line containing GPU.
IsAmdGpuBlock(script, lines, i) ==
  /\ \E j \in BlockLines(lines, i) :
       StartsWith(LStrip(lines[j]), <<"D","e","v","i","c","e"," ","V","e","n","d","o","r">>) /\ NamesAmd(script, lines[j])
  /\ \E j \in BlockLines(lines, i) :
       StartsWith(LStrip(lines[j]), <<"D","e","v","i","c","e"," ","T","y","p","e">>) /\ Contains(lines[j], <<"G","P","U">>)

AmdGpuBlocks(script, text) ==
  LET lines == SplitLines(text)
  IN {i \in BlockStarts(lines) : IsAmdGpuBlock(script, lines, i)}

\* C17: count_amd_gpus_clinfo returns the number of device blocks, a block
\* starting at a "Device Name" line, that hold both a "Device Vendor" line
\* naming AMD and a "Device Type" line containing GPU.
C17_CountsAmdGpuBlocks ==
  gpu.pc = "counted" =>
    gpu.count = Cardinality(AmdGpuBlocks(gpu.script, gpu.clinfo.text))

\* The scripts whose main combines the three checks with all((...)).
ALL_SCRIPTS == {"check_amd_gpu", "linux_80_check_amd_gpu"}

\* C19: in check_amd_gpu.py and the linux 80_check_amd_gpu.py a finished run
\* has executed the AMDGPU, OpenCL and Vulkan checks, in that order, and its
\* exit status is 0 if all three returned success and 1 otherwise.
C19_AllChecksRunAndDecide ==
  (gpu.script \in ALL_SCRIPTS /\ gpu.pc = "exited") =>
    /\ gpu.executed = <<"amdgpu", "opencl", "vulkan">>
    /\ gpu.exit_status = (IF gpu.returned = <<"True", "True", "True">> THEN 0 ELSE 1)

\* C20: in src/graphictools/.../80_check_amd_gpu.py a run whose AMDGPU check
\* failed prints "At least one check failed" and exits with a non-zero status.
C20_FailedDriverCheckFailsRun ==
  (/\ gpu.script = "80_check_amd_gpu"
   /\ gpu.pc = "exited"
   /\ check_amdgpu(gpu.script, gpu.lspci_k) = "False") =>
    /\ gpu.summary = "At least one check failed"
    /\ gpu.exit_status # 0

\* The sort key pci_sort_key falls back to.
FALLBACK_KEY == <<999, 999, 999>>

\* The key is an accepted bus address, a space and a description, and
\* pci_sort_key of its first token is the address's (bus, device, function)
\* triple, below the fallback.
AgreesWithSortKey(key) ==
  \E addr \in ADDRESSES :
    LET triple == pci_sort_key(FirstToken(key))
    IN /\ StartsWith(key, addr \o <<" ">>)
       /\ FirstToken(key) = addr
       /\ triple # FALLBACK_KEY
       /\ triple[1] * 4096 + triple[2] * 16 + triple[3] = AddrValue(addr)
       /\ TupleLess(triple, FALLBACK_KEY)

\* C21: every key the resolver returned is the sentinel, whose sort key is the
\* fallback (999, 999, 999), or an accepted address, a space and a description
\* whose sort key is the address's triple, strictly below the fallback; so in
\* v2's report only the sentinel group has the fallback key, and it is last.
C21_ResolverAggregatorAgreement ==
  /\ \A i \in 1..Len(scanned) :
       IF scanned[i].controller = UNKNOWN_CONTROLLER
       THEN pci_sort_key(FirstToken(scanned[i].controller)) = FALLBACK_KEY
       ELSE AgreesWithSortKey(scanned[i].controller)
  /\ \A g \in 1..Len(CONTROLLER_DISKS) :
       CONTROLLER_DISKS[g].key = UNKNOWN_CONTROLLER \/ AgreesWithSortKey(CONTROLLER_DISKS[g].key)
  /\ (pc = "done" /\ variant = "v2") =>
       \A i \in 1..Len(output) :
         /\ (pci_sort_key(FirstToken(output[i].key)) = FALLBACK_KEY)
              <=> (output[i].key = UNKNOWN_CONTROLLER)
         /\ output[i].key = UNKNOWN_CONTROLLER => i = Len(output)

\* A finished v2 run whose first group inserted is the sentinel's and whose
\* report has it last, after the group of the resolved address 0a:00.1.
C21_Witness ==
  /\ pc = "done" /\ variant = "v2"
  /\ Len(CONTROLLER_DISKS) >= 2
  /\ CONTROLLER_DISKS[1].key = UNKNOWN_CONTROLLER
  /\ output[Len(output)].key = UNKNOWN_CONTROLLER
  /\ \E i \in 1..(Len(output) - 1) : StartsWith(output[i].key, ADDR_NVME \o <<" ">>)

\* A key the resolver can return: the sentinel, or a bus address, a space and
\* a description.
ResolverKey(key) ==
  \/ key = UNKNOWN_CONTROLLER
  \/ AddrAt(key, 1) /\ Len(key) >= 8 /\ key[8] = " "

\* C22: for every map whose keys the resolver can produce, print_output of
\* disk_controller_tree.py (string sort) and of v2_disk_controller_tree.py
\* (sort by pci_sort_key) emit the groups in the same order.
C22_VariantsOrderAlike ==
  (\A g \in 1..Len(CONTROLLER_DISKS) : ResolverKey(CONTROLLER_DISKS[g].key)) =>
    Keys(print_output("v1", CONTROLLER_DISKS)) = Keys(print_output("v2", CONTROLLER_DISKS))

====
